---- MODULE Spec2Model ----
(***************************************************************************)
(* A model of the DHCPv4 client state machine of dhcpcd (src/dhcp.c): one  *)
(* interface, its lease record, its timers in the event loop, its sockets  *)
(* and the handlers that the event loop runs (timer callbacks and the      *)
(* packet dispatcher).  Every handler is translated as a function from the *)
(* interface record before the call to the interface record after it, so   *)
(* that the order of the statements of the C code is kept; an action runs  *)
(* one handler to completion.                                              *)
(*                                                                         *)
(* Time is counted in whole seconds.  A pending timer holds the seconds    *)
(* left until it fires; the event loop fires the timer with the least time *)
(* left and takes that time off every other pending timer.                 *)
(***************************************************************************)
EXTENDS Integers, Sequences, FiniteSets, TLC

(***************************************************************************)
(* Bounds of the model.                                                    *)
(***************************************************************************)
\* transaction ids we let dhcp_xid choose from: 1..MaxXid
MaxXid == 1
\* the finite lease time (option 51) servers of the state machine model offer
LeaseSecs == 24
\* a short renewal/rebind time (options 58, 59) such servers may send
ShortSecs == 6
\* consecutive NAKs counted by naks; MaxNaks stands for "MaxNaks or more"
MaxNaks == 8
\* age in seconds of a lease file found at start: 0..MaxAge
MaxAge == 1

(***************************************************************************)
(* Program constants.                                                      *)
(***************************************************************************)
DHCP_MIN_LEASE == 20
NAKOFF_MAX == 60
\* ~0U, the infinite lease time.  TLC computes with 32-bit signed integers, so
\* the uint32_t fields of the lease are modelled with 30 bits: U32 is the
\* modulus of their arithmetic and INFINITE, its all-ones value, stands for ~0U
INFINITE == 1073741823
U32 == INFINITE + 1
\* the first retransmission interval and its cap (send_message)
INTERVAL_FIRST == 4
INTERVAL_MAX == 64
\* if-options.h: seconds to wait for a reply in REBOOT
DEFAULT_REBOOT == 5
\* arp.h: seconds to wait after a DECLINE before restarting
DHCP_ARP_FAIL == 10
MAGIC_COOKIE == 1669485411
INADDR_ANY == 0
INADDR_BROADCAST == U32 - 1

Min(a, b) == IF a < b THEN a ELSE b

(***************************************************************************)
(* Messages.  A message carries the fields the state machine reads:        *)
(*   type    option 53 ("BOOTP" when the option is absent)                 *)
(*   xid, cookie, yiaddr, ciaddr                                           *)
(*   hw      TRUE when chaddr is the hardware address of the interface     *)
(*   sid     option 54, 0 when absent                                      *)
(*   lt      option 51, -1 when absent                                     *)
(*   rn, rb  options 58 and 59, -1 when absent                             *)
(***************************************************************************)
ABSENT == 0 - 1
NULL == [type |-> "NULL"]

\* addresses: two client addresses and one server
ADDR1 == INADDR_ANY + 1
ADDR2 == INADDR_ANY + 2
SERVER1 == INADDR_ANY + 9
\* the netmask every lease of the model carries
MASK1 == INADDR_BROADCAST - 255

Msg(t, x, c, hw, yi, sid, lt, rn, rb) ==
  [type |-> t, xid |-> x, cookie |-> c, hw |-> hw, yiaddr |-> yi,
   ciaddr |-> 0, sid |-> sid, lt |-> lt, rn |-> rn, rb |-> rb]

Xids == 1..MaxXid

\* the message as state->offer, state->new, state->old and the lease file hold
\* it.  The xid of a message is read once, by dhcp_handlepacket, and by nothing
\* that reads a held message, so a held message is kept without it.
Held(m) ==
  [type |-> m.type, cookie |-> m.cookie, hw |-> m.hw, yiaddr |-> m.yiaddr,
   ciaddr |-> m.ciaddr, sid |-> m.sid, lt |-> m.lt, rn |-> m.rn, rb |-> m.rb]

\* what a server (or anyone on the wire) may send with transaction id x:
\* NAKs and OFFERs with and without Server-ID, an OFFER without address;
\* ACKs with a lease time alone, with no lease time (an infinite lease), with
\* a rebind time and no renewal time, without Server-ID, for another address
\* and without address; a BOOTP reply; a message of another type; a reply
\* without the magic cookie and a reply for another hardware address
NaksOf(x) ==
  { Msg("NAK", x, MAGIC_COOKIE, TRUE, 0, sid, ABSENT, ABSENT, ABSENT) :
      sid \in {0, SERVER1} }

MsgsOf(x) ==
       NaksOf(x)
  \cup { Msg("OFFER", x, MAGIC_COOKIE, TRUE, ADDR1, sid, ABSENT, ABSENT, ABSENT) :
            sid \in {0, SERVER1} }
  \cup { Msg("OFFER", x, MAGIC_COOKIE, TRUE, 0, SERVER1, ABSENT, ABSENT, ABSENT),
         Msg("ACK", x, MAGIC_COOKIE, TRUE, ADDR1, SERVER1, LeaseSecs, ABSENT, ABSENT),
         Msg("ACK", x, MAGIC_COOKIE, TRUE, ADDR1, SERVER1, ABSENT, ABSENT, ABSENT),
         Msg("ACK", x, MAGIC_COOKIE, TRUE, ADDR1, SERVER1, LeaseSecs, ABSENT, ShortSecs),
         Msg("ACK", x, MAGIC_COOKIE, TRUE, ADDR1, 0, LeaseSecs, ABSENT, ABSENT),
         Msg("ACK", x, MAGIC_COOKIE, TRUE, ADDR2, SERVER1, LeaseSecs, ABSENT, ABSENT),
         Msg("ACK", x, MAGIC_COOKIE, TRUE, 0, SERVER1, LeaseSecs, ABSENT, ABSENT),
         Msg("BOOTP", x, MAGIC_COOKIE, TRUE, ADDR1, 0, ABSENT, ABSENT, ABSENT),
         Msg("INFORM", x, MAGIC_COOKIE, TRUE, 0, SERVER1, ABSENT, ABSENT, ABSENT),
         Msg("ACK", x, 0, TRUE, ADDR1, SERVER1, LeaseSecs, ABSENT, ABSENT),
         Msg("BOOTP", x, 0, TRUE, ADDR1, 0, ABSENT, ABSENT, ABSENT),
         Msg("ACK", x, MAGIC_COOKIE, FALSE, ADDR1, SERVER1, LeaseSecs, ABSENT, ABSENT) }

\* the packets that may arrive while the transaction id is x: all those of
\* the transaction, and one of another transaction
Arrivals(x) ==
  MsgsOf(x) \cup
  { Msg("ACK", (x + 1) % (MaxXid + 1), MAGIC_COOKIE, TRUE, ADDR1, SERVER1,
        LeaseSecs, ABSENT, ABSENT) }

\* is_bootp (dhcp-common): a message without option 53
is_bootp(m) == m # NULL /\ m.type = "BOOTP"

(***************************************************************************)
(* The event loop's timers of the interface, keyed by callback.            *)
(***************************************************************************)
TimerNames ==
  { "send_discover", "send_request", "send_renew", "send_rebind",
    "dhcp_renew", "dhcp_rebind", "dhcp_expire", "dhcp_timeout",
    "start_interface", "send_inform" }

RetransmitTimers ==
  { "send_discover", "send_request", "send_renew", "send_rebind" }

NOTIMER == 0 - 1
NoTimers == [c \in TimerNames |-> NOTIMER]

\* eloop_timeout_add_sec / eloop_timeout_add_tv: a timer of the same callback
\* is replaced
TimeoutAdd(t, cb, secs) == [t EXCEPT ![cb] = secs]
\* eloop_timeout_delete(cb, iface)
TimeoutDelete(t, cb) == [t EXCEPT ![cb] = NOTIMER]
\* eloop_timeout_delete(NULL, iface)
TimeoutDeleteAll(t) == NoTimers
\* eloop_timeouts_delete(iface, dhcp_expire, NULL) as dhcp_drop uses it: drop
\* removes all timers of the interface
TimeoutsDelete(t) == NoTimers

Pending(t) == { c \in TimerNames : t[c] # NOTIMER }

\* Timers added by one handler with the same delay fire in the order they were
\* added: dhcp_bind adds dhcp_renew, then dhcp_rebind, then dhcp_expire.
AddedBefore(c, d) ==
  \/ c = "dhcp_renew" /\ d \in {"dhcp_rebind", "dhcp_expire"}
  \/ c = "dhcp_rebind" /\ d = "dhcp_expire"

\* the timer c is the next one the event loop fires
Due(t, c) ==
  /\ t[c] # NOTIMER
  /\ \A d \in Pending(t) : t[c] <= t[d] /\ ~(t[d] = t[c] /\ AddedBefore(d, c))

\* the timers after c has fired: time has moved on by t[c]
Elapse(t, c) ==
  [d \in TimerNames |->
     IF d = c \/ t[d] = NOTIMER THEN NOTIMER ELSE t[d] - t[c]]

(***************************************************************************)
(* The lease record.                                                       *)
(***************************************************************************)
NoLease ==
  [addr |-> 0, net |-> 0, server |-> 0, cookie |-> 0, leasetime |-> 0,
   renewaltime |-> 0, rebindtime |-> 0, frominfo |-> FALSE]

\* get_lease: fill the lease from a message
get_lease(lease, m) ==
  [lease EXCEPT
     !.cookie = m.cookie,
     !.addr = IF m.yiaddr # 0 THEN m.yiaddr ELSE m.ciaddr,
     !.net = MASK1,
     !.leasetime = IF m.lt # ABSENT THEN m.lt ELSE INFINITE,
     !.renewaltime = IF m.rn # ABSENT THEN m.rn ELSE 0,
     !.rebindtime = IF m.rb # ABSENT THEN m.rb ELSE 0,
     !.server = IF m.sid # 0 THEN m.sid ELSE INADDR_ANY]

\* leasetime * T1 and leasetime * T2 converted back to uint32_t (dhcp.h:
\* T1 0.5, T2 0.875); l - ceil(l / 8) is floor(l * 7 / 8)
MulT1(l) == l \div 2
MulT2(l) == l - ((l + 7) \div 8)

\* a dhcp_bind that takes the lease time as sent, however short
BindTimesUnclamped(lease) ==
  IF lease.leasetime = INFINITE
  THEN [lease EXCEPT !.renewaltime = INFINITE, !.rebindtime = INFINITE]
  ELSE [lease EXCEPT !.rebindtime = MulT2(lease.leasetime),
                     !.renewaltime = MulT1(lease.leasetime)]

\* dhcp_bind, the DHCP branch: lease, renewal and rebind times
BindTimes(lease) ==
  IF lease.leasetime = INFINITE
  THEN [lease EXCEPT !.renewaltime = INFINITE, !.rebindtime = INFINITE]
  ELSE LET lt == IF lease.leasetime < DHCP_MIN_LEASE
                 THEN DHCP_MIN_LEASE ELSE lease.leasetime
           rb == IF lease.rebindtime = 0 THEN MulT2(lt)
                 ELSE IF lease.rebindtime >= lt THEN MulT2(lt)
                 ELSE lease.rebindtime
           rn == IF lease.renewaltime = 0 THEN MulT1(lt)
                 ELSE IF lease.renewaltime > rb THEN MulT1(lt)
                 ELSE lease.renewaltime
       IN [lease EXCEPT !.leasetime = lt, !.rebindtime = rb, !.renewaltime = rn]

\* a send_message that forgets the cap of the interval
UncappedInterval(i) == IF i = 0 THEN INTERVAL_FIRST ELSE i * 2

\* send_message: the retransmission interval of the next send
NextInterval(i) ==
  IF i = 0 THEN INTERVAL_FIRST ELSE Min(i * 2, INTERVAL_MAX)

\* a NAK backoff that forgets NAKOFF_MAX
UncappedNakoff(n) == IF n = 0 THEN 1 ELSE n * 2

\* dhcp_handle: the NAK backoff after one more NAK
NextNakoff(n) ==
  IF n = 0 THEN 1 ELSE Min(n * 2, NAKOFF_MAX)

(***************************************************************************)
(* The interface.  A handler takes the interface record s (struct          *)
(* interface with its if_state and if_options) and the values `in` it      *)
(* draws from outside while it runs:                                       *)
(*   in.xid      the result of dhcp_xid                                    *)
(*   in.jit      the whole seconds of the jitter of a retransmission       *)
(*   in.hasaddr  the result of has_address for the offered address         *)
(*   in.age      now - st_mtime of the lease file                          *)
(*   in.io       the results of open_socket, open_udp_socket and the send  *)
(* s.sent lists the messages the running handler handed to the network,    *)
(* s.trace the functions it called, in order, and s.naks counts the NAKs   *)
(* taken since nakoff was last 0.                                          *)
(***************************************************************************)
DHS_INIT == "INIT"
DHS_DISCOVER == "DISCOVER"
DHS_REQUEST == "REQUEST"
DHS_BOUND == "BOUND"
DHS_RENEW == "RENEW"
DHS_REBIND == "REBIND"
DHS_REBOOT == "REBOOT"
DHS_PROBE == "PROBE"
DHS_INFORM == "INFORM"

IoOK == [raw |-> "ok", udp |-> "ok", send |-> "ok"]
\* the outcomes of the socket operations of one handler call: at most one of
\* them fails
IoAll ==
  { IoOK, [IoOK EXCEPT !.raw = "fail"], [IoOK EXCEPT !.udp = "fail"],
    [IoOK EXCEPT !.udp = "inuse"], [IoOK EXCEPT !.send = "fail"] }

\* evaluate e once and hand its value to F
Bind(e, F(_)) == CHOOSE y \in { F(x) : x \in {e} } : TRUE

Tr(s, op) == [s EXCEPT !.trace = Append(@, op)]

\* unlink(iface->leasefile)
unlink(s) ==
  [s EXCEPT !.trace = Append(@, "unlink"), !.leasefile = NULL]

\* a dhcp_close that leaves the raw socket open
CloseButRaw(s) ==
  [s EXCEPT !.trace = Append(@, "dhcp_close"),
            !.arp_fd = FALSE, !.udp_fd = FALSE]

\* dhcp_close
dhcp_close(s) ==
  [s EXCEPT !.trace = Append(@, "dhcp_close"),
            !.arp_fd = FALSE, !.raw_fd = FALSE, !.udp_fd = FALSE]

\* write_lease: a BOOTP lease is not written and the file is unlinked
write_lease(s, m) ==
  [s EXCEPT !.leasefile = IF is_bootp(m) THEN NULL ELSE m]

\* ipv4_applyaddr (ipv4.c): remove the address when there is no lease, else
\* configure the address of the lease and write the lease file
ipv4_applyaddr(s0) ==
  Bind(Tr(s0, "ipv4_applyaddr"), LAMBDA a :
    IF a.new = NULL THEN [a EXCEPT !.addr = 0, !.net = 0]
    ELSE IF ~a.lease.frominfo
    THEN write_lease([a EXCEPT !.addr = a.lease.addr, !.net = a.lease.net], a.new)
    ELSE [a EXCEPT !.addr = a.lease.addr, !.net = a.lease.net])

\* arp_announce and arp_probe (arp.c): open the ARP socket and start the
\* announcements or the probes
arp_announce(s) ==
  [s EXCEPT !.trace = Append(@, "arp_announce"), !.arp_fd = TRUE]
arp_probe(s) ==
  [s EXCEPT !.trace = Append(@, "arp_probe"), !.arp_fd = TRUE]

\* a dhcp_drop that removes the timers and keeps the lease
DropTimersOnly(s, reason) ==
  [s EXCEPT !.trace = Append(@, "dhcp_drop"), !.timers = TimeoutsDelete(@)]

\* dhcp_drop
dhcp_drop(s0, reason) ==
  Bind(s0, LAMBDA s :
    [ipv4_applyaddr([s EXCEPT !.trace = Append(@, "dhcp_drop"),
                              !.timers = TimeoutsDelete(@),
                              !.old = s.new, !.new = NULL,
                              !.reason = reason])
       EXCEPT !.old = NULL, !.lease.addr = 0])

\* dhcp_open: the interface and the value returned.  open_socket returns the
\* descriptor it opened, a positive number.
dhcp_open(s0, io) ==
  Bind(s0, LAMBDA s :
    LET wantraw == ~s.raw_fd
        wantudp == /\ ~s.udp_fd
                   /\ s.addr # 0
                   /\ s.new # NULL
                   /\ (s.new.cookie = MAGIC_COOKIE \/ s.ifo.inform)
    IN [s |-> [s EXCEPT !.raw_fd = @ \/ io.raw = "ok",
                        !.udp_fd = @ \/ (wantudp /\ io.udp = "ok")],
        r |-> IF wantudp /\ io.udp = "fail" THEN 0 - 1
              ELSE IF ~wantraw THEN 0
              ELSE IF io.raw = "ok" THEN 3 ELSE 0 - 1])

\* make_message: the fields of the request the claims are about; ifaddr is
\* iface->addr as send_message leaves it for the call
make_message(s, ifaddr, type) ==
  LET ci == IF type = "INFORM" /\ ifaddr = 0 THEN s.lease.addr
            ELSE IF \/ type \in {"INFORM", "RELEASE"}
                    \/ /\ type = "REQUEST"
                       /\ s.net = s.lease.net
                       /\ (s.new = NULL \/ s.new.cookie = MAGIC_COOKIE)
            THEN ifaddr ELSE 0
      wantip == /\ s.lease.addr # 0
                /\ s.lease.cookie = MAGIC_COOKIE
                /\ \/ type = "DECLINE"
                   \/ type = "REQUEST" /\ s.lease.addr # ifaddr
      wantsid == /\ s.lease.addr # 0
                 /\ s.lease.cookie = MAGIC_COOKIE
                 /\ (wantip \/ type = "RELEASE")
  IN [type |-> type, xid |-> s.xid, ciaddr |-> ci,
      bflag |-> (s.ifo.broadcast /\ ci = 0 /\ type \notin {"DECLINE", "RELEASE"}),
      reqip |-> IF wantip THEN s.lease.addr ELSE 0,
      sid |-> IF wantsid THEN s.lease.server ELSE 0]

\* a send_message that treats a failure of send_raw_packet as it treats one of
\* send_packet: it closes the sockets and keeps the lease
TransmitKeepsLease(b, type, cb, in) ==
  LET hide == ~b.udp_fd \/ (~b.ifo.inform /\ is_bootp(b.new))
      m == make_message(b, IF hide THEN 0 ELSE b.addr, type)
      to == IF m.ciaddr # 0 THEN b.lease.server ELSE 0
      tv == b.interval + in.jit
  IN Bind([b EXCEPT !.sent = Append(@, [msg |-> m,
                      via |-> IF to # 0 /\ to # INADDR_BROADCAST
                              THEN "udp" ELSE "raw",
                      to |-> to]),
                    !.timers = IF cb = "none" THEN @ ELSE TimeoutAdd(@, cb, tv)],
          LAMBDA c : IF in.io.send = "fail" THEN dhcp_close(c) ELSE c)

\* send_message after dhcp_open: build the message, send it over the UDP
\* socket or the raw socket, schedule the retransmission
Transmit(b, type, cb, in) ==
  LET hide == ~b.udp_fd \/ (~b.ifo.inform /\ is_bootp(b.new))
      m == make_message(b, IF hide THEN 0 ELSE b.addr, type)
      to == IF m.ciaddr # 0 THEN b.lease.server ELSE 0
      tv == b.interval + in.jit
  IN IF to # 0 /\ to # INADDR_BROADCAST
     THEN \* send_packet
       Bind([b EXCEPT !.sent = Append(@, [msg |-> m, via |-> "udp", to |-> to]),
                      !.timers = IF cb = "none" THEN @ ELSE TimeoutAdd(@, cb, tv)],
            LAMBDA c : IF in.io.send = "fail" THEN dhcp_close(c) ELSE c)
     ELSE \* make_udp_packet and send_raw_packet
       Bind([b EXCEPT !.sent = Append(@, [msg |-> m, via |-> "raw", to |-> to])],
            LAMBDA c :
              IF in.io.send = "fail"
              THEN [dhcp_close(IF c.ifo.test THEN c ELSE dhcp_drop(c, "FAIL"))
                      EXCEPT !.timers = TimeoutDeleteAll(@)]
              ELSE IF cb = "none" THEN c
              ELSE [c EXCEPT !.timers = TimeoutAdd(@, cb, tv)])

\* send_message; cb is the retransmission callback or "none"
send_message(s0, type, cb, in) ==
  Bind(dhcp_open([s0 EXCEPT !.trace = Append(@, "send_message"),
                            !.interval = IF cb = "none" THEN @
                                         ELSE NextInterval(@)], in.io),
       LAMBDA o :
         IF o.r = 0 - 1
         THEN IF o.s.ifo.test THEN o.s ELSE dhcp_drop(o.s, "FAIL")
         ELSE Transmit(o.s, type, cb, in))

send_discover(s, in) ==
  send_message(Tr(s, "send_discover"), "DISCOVER", "send_discover", in)
send_request(s, in) ==
  send_message(Tr(s, "send_request"), "REQUEST", "send_request", in)
send_renew(s, in) ==
  send_message(Tr(s, "send_renew"), "REQUEST", "send_renew", in)
send_rebind(s, in) ==
  send_message(Tr(s, "send_rebind"), "REQUEST", "send_rebind", in)
send_inform(s, in) ==
  send_message(Tr(s, "send_inform"), "INFORM", "send_inform", in)

\* dhcp_discover (no fallback profile, no IPv4LL)
DiscoverKeepsTimers(s, in) ==
  send_discover([s EXCEPT !.trace = Append(@, "dhcp_discover"),
                          !.state = DHS_DISCOVER, !.xid = in.xid], in)

\* dhcp_discover
dhcp_discover(s, in) ==
  send_discover([s EXCEPT !.trace = Append(@, "dhcp_discover"),
                          !.state = DHS_DISCOVER, !.xid = in.xid,
                          !.timers = TimeoutDeleteAll(@)], in)

\* a dhcp_request that leaves the state as it is
RequestInPlace(s, in) == send_request(Tr(s, "dhcp_request"), in)

\* dhcp_request
dhcp_request(s, in) ==
  send_request([s EXCEPT !.trace = Append(@, "dhcp_request"),
                         !.state = DHS_REQUEST], in)

\* dhcp_decline
dhcp_decline(s, in) == send_message(Tr(s, "dhcp_decline"), "DECLINE", "none", in)

\* a dhcp_release that sends the RELEASE and keeps the lease
ReleaseWithoutDrop(s0, in) ==
  Bind(Tr(s0, "dhcp_release"), LAMBDA a :
    unlink(IF a.new # NULL /\ a.new.cookie = MAGIC_COOKIE
           THEN send_message([a EXCEPT !.xid = in.xid], "RELEASE", "none", in)
           ELSE a))

\* dhcp_release
dhcp_release(s0, in) ==
  Bind(Tr(s0, "dhcp_release"), LAMBDA a :
    unlink(IF a.new # NULL /\ a.new.cookie = MAGIC_COOKIE
           THEN dhcp_drop(send_message([a EXCEPT !.xid = in.xid],
                                       "RELEASE", "none", in), "RELEASE")
           ELSE a))

\* dhcp_reboot (carrier up, not static, not inform, no fallback profile)
dhcp_reboot(s0, in) ==
  Bind(Tr(s0, "dhcp_reboot"), LAMBDA a :
    IF a.ifo.reboot = 0 \/ a.offer = NULL THEN dhcp_discover(a, in)
    ELSE IF a.offer.cookie = 0 THEN dhcp_discover(a, in)
    ELSE dhcp_request(
           [a EXCEPT !.state = DHS_REBOOT, !.xid = in.xid,
                     !.lease.server = 0,
                     !.timers = TimeoutAdd(TimeoutDeleteAll(@),
                                  IF a.ifo.lastlease /\ a.lease.frominfo
                                  THEN "dhcp_timeout" ELSE "dhcp_expire",
                                  a.ifo.reboot)], in))

\* read_lease: the stored message, NULL when there is no file
read_lease(s) == s.leasefile

\* dhcp_start, the lease read from the file: its times are those of the
\* message less the age of the file
StoredTimes(l, age) ==
  [l EXCEPT !.leasetime = (@ - age) % U32,
            !.renewaltime = (@ - age) % U32,
            !.rebindtime = (@ - age) % U32]

\* dhcp_start from read_lease on: b.offer is the lease read
StartLease(b, in) ==
  IF b.offer = NULL THEN b
  ELSE Bind([get_lease(b.lease, b.offer) EXCEPT !.frominfo = TRUE], LAMBDA l :
         IF b.offer.cookie = 0
         THEN [b EXCEPT !.lease = l,
                        !.offer = IF b.offer.yiaddr = b.addr THEN NULL ELSE @]
         ELSE IF l.leasetime # INFINITE /\ b.leasefile # NULL
         THEN IF l.leasetime < in.age
              THEN [b EXCEPT !.lease = [l EXCEPT !.addr = 0], !.offer = NULL]
              ELSE [b EXCEPT !.lease = StoredTimes(l, in.age)]
         ELSE [b EXCEPT !.lease = l])

\* dhcp_bind: the reason given to the script
BindReason(s) ==
  IF s.reason # "NULL" THEN s.reason
  ELSE IF s.old # NULL
       THEN IF s.old.yiaddr = s.new.yiaddr /\ s.lease.server # 0
            THEN "RENEW" ELSE "REBIND"
  ELSE IF s.state = DHS_REBOOT THEN "REBOOT"
  ELSE "BOUND"

\* a dhcp_bind whose timers are added to those already queued for the
\* callback
BindTimersAdding(t, lease) ==
  [t EXCEPT !["dhcp_renew"] = lease.renewaltime + IF @ = NOTIMER THEN 0 ELSE @,
            !["dhcp_rebind"] = lease.rebindtime + IF @ = NOTIMER THEN 0 ELSE @,
            !["dhcp_expire"] = lease.leasetime + IF @ = NOTIMER THEN 0 ELSE @]

\* dhcp_bind: the timers of a finite lease
BindTimers(t, lease) ==
  TimeoutAdd(TimeoutAdd(TimeoutAdd(t,
    "dhcp_renew", lease.renewaltime),
    "dhcp_rebind", lease.rebindtime),
    "dhcp_expire", lease.leasetime)

\* dhcp_bind: the lease of the message that becomes state->new
BindLease(l, m) ==
  IF m.cookie # MAGIC_COOKIE THEN [l EXCEPT !.leasetime = INFINITE]
  ELSE BindTimes(l)

\* dhcp_bind: which of its branches takes the offer
BindKind(a) ==
  IF a.ifo.static THEN "STATIC"
  ELSE IF a.offer.cookie # MAGIC_COOKIE THEN "IPV4LL"
  ELSE IF a.ifo.inform THEN "INFORM"
  ELSE "NULL"

\* dhcp_bind: the lease of a static address and of an INFORM
KindLease(a, l) ==
  IF BindKind(a) = "STATIC"
  THEN [l EXCEPT !.leasetime = INFINITE, !.net = a.ifo.req_mask]
  ELSE IF BindKind(a) = "INFORM"
  THEN [l EXCEPT !.leasetime = INFINITE,
                 !.addr = IF a.ifo.req_addr # 0 THEN a.ifo.req_addr
                          ELSE a.addr]
  ELSE BindLease(l, a.offer)

\* a dhcp_bind that schedules no timer
BindWithoutTimers(c) ==
  [ipv4_applyaddr([c EXCEPT !.reason = BindReason(c)])
     EXCEPT !.state = DHS_BOUND]

\* dhcp_bind, from the choice of the reason on
BindApply(c) ==
  Bind([c EXCEPT !.reason = BindReason(c),
                 !.lease = IF @.leasetime = INFINITE
                           THEN [@ EXCEPT !.renewaltime = INFINITE,
                                          !.rebindtime = INFINITE]
                           ELSE @,
                 !.timers = IF c.lease.leasetime = INFINITE THEN @
                            ELSE BindTimers(@, c.lease)],
       LAMBDA e :
         Bind([ipv4_applyaddr(e) EXCEPT !.state = DHS_BOUND], LAMBDA f :
           IF f.ifo.arp THEN arp_announce([f EXCEPT !.claims = 0]) ELSE f))

\* dhcp_bind
dhcp_bind(s0) ==
  Bind(dhcp_close(Tr(s0, "dhcp_bind")), LAMBDA a :
    Bind([a EXCEPT !.reason = BindKind(a),
                   !.xid = 0, !.old = a.new, !.new = a.offer, !.offer = NULL,
                   !.lease = KindLease(a, get_lease(@, a.offer))],
         LAMBDA c :
           IF c.ifo.test
           THEN \* script_run and exit
                [c EXCEPT !.trace = Append(@, "exit"), !.reason = "TEST",
                          !.running = FALSE]
           ELSE BindApply(c)))

\* dhcp_message_new: the message of a static address, without cookie and
\* without options but the netmask
StaticMsg(a) ==
  Held(Msg("BOOTP", 0, 0, FALSE, a, 0, ABSENT, ABSENT, ABSENT))

\* dhcp_static (ifo->req_addr is set, so handle_3rdparty returns 0)
dhcp_static(s) ==
  dhcp_bind([s EXCEPT !.trace = Append(@, "dhcp_static"),
                      !.offer = StaticMsg(s.ifo.req_addr),
                      !.timers = TimeoutDeleteAll(@)])

\* dhcp_inform (ifo->req_addr is set)
dhcp_inform(s0, in) ==
  Bind(Tr(s0, "dhcp_inform"), LAMBDA a :
    Bind(IF a.ifo.test
         THEN [a EXCEPT !.addr = a.ifo.req_addr, !.net = a.ifo.req_mask]
         ELSE dhcp_static([a EXCEPT !.ifo.static = TRUE]),
         LAMBDA b :
           send_inform([b EXCEPT !.state = DHS_INFORM, !.xid = in.xid], in)))

\* dhcp_start (IPv4 on, the interface has a hardware address)
dhcp_start(s0, in) ==
  IF s0.ifo.static THEN dhcp_static(Tr(s0, "dhcp_start")) ELSE
  Bind(dhcp_open(Tr(s0, "dhcp_start"), in.io), LAMBDA o :
    IF o.r = 0 THEN o.s
    ELSE IF o.s.ifo.inform THEN dhcp_inform(o.s, in)
    ELSE Bind(IF o.s.offer # NULL /\ o.s.ifo.test THEN o.s
              ELSE [o.s EXCEPT !.offer = read_lease(o.s)], LAMBDA b :
           Bind(StartLease(b, in), LAMBDA c :
             IF c.offer = NULL THEN dhcp_discover(c, in)
             ELSE dhcp_reboot(c, in))))

\* start_interface (dhcpcd.c): start DHCP on the interface
start_interface(s, in) == dhcp_start(Tr(s, "start_interface"), in)

\* dhcp_expire (the carrier is up)
dhcp_expire(s0, in) ==
  Bind([s0 EXCEPT !.trace = Append(@, "dhcp_expire"), !.interval = 0], LAMBDA a :
    IF a.addr = 0
    THEN dhcp_discover([a EXCEPT !.lease.addr = 0], in)
    ELSE start_interface(
           unlink(dhcp_drop([a EXCEPT !.timers = TimeoutDeleteAll(@)], "EXPIRE")),
           in))

\* a dhcp_renew that sends to the broadcast address, as dhcp_rebind does
RenewByBroadcast(s, in) ==
  send_renew([s EXCEPT !.trace = Append(@, "dhcp_renew"),
                       !.state = DHS_RENEW, !.xid = in.xid,
                       !.lease.server = 0], in)

\* dhcp_renew
dhcp_renew(s, in) ==
  send_renew([s EXCEPT !.trace = Append(@, "dhcp_renew"),
                       !.state = DHS_RENEW, !.xid = in.xid], in)

\* a dhcp_rebind that keeps the server of the lease
RebindKeepsServer(s, in) ==
  send_rebind([s EXCEPT !.trace = Append(@, "dhcp_rebind"),
                        !.state = DHS_REBIND,
                        !.timers = TimeoutDelete(@, "send_renew")], in)

\* dhcp_rebind
dhcp_rebind(s, in) ==
  send_rebind([s EXCEPT !.trace = Append(@, "dhcp_rebind"),
                        !.state = DHS_REBIND,
                        !.timers = TimeoutDelete(@, "send_renew"),
                        !.lease.server = 0], in)

\* arp.c, the probes found no conflict: bind the offer
arp_ok(s) == dhcp_bind(Tr(s, "arp_ok"))

\* arp.c, a probe found the offered address in use: decline it, forget the
\* lease file and start again after DHCP_ARP_FAIL seconds
arp_conflict(s, in) ==
  [dhcp_close(dhcp_decline(
     unlink([s EXCEPT !.trace = Append(@, "arp_conflict"),
                      !.conflicts = @ + 1]), in))
     EXCEPT !.timers = TimeoutAdd(TimeoutDeleteAll(@), "start_interface",
                                  DHCP_ARP_FAIL)]

\* dhcp_timeout
dhcp_timeout(s0, in) ==
  Bind(dhcp_bind(Tr(s0, "dhcp_timeout")), LAMBDA a :
    IF ~a.running THEN a
    ELSE dhcp_discover([a EXCEPT !.interval = 0], in))

\* an ACK handling that binds without the ARP probe
AckWithoutProbe(s, m, in) ==
  dhcp_bind(dhcp_close([s EXCEPT !.offer = m, !.lease.frominfo = FALSE,
                                 !.trace = Append(@, "eloop_timeout_delete(NULL)"),
                                 !.timers = TimeoutDeleteAll(@)]))

\* dhcp_handle, from "BOOTP could have already assigned this above" on: the
\* message becomes the offer, then PROBE or dhcp_bind
HandleAck(s, m, in) ==
  Bind(dhcp_close([s EXCEPT !.offer = m, !.lease.frominfo = FALSE,
                            !.trace = Append(@, "eloop_timeout_delete(NULL)"),
                            !.timers = TimeoutDeleteAll(@)]),
       LAMBDA c :
         IF c.ifo.arp /\ c.addr # c.offer.yiaddr /\ ~in.hasaddr
         THEN arp_probe([c EXCEPT !.claims = 0, !.probes = 0, !.conflicts = 0,
                                  !.state = DHS_PROBE])
         ELSE dhcp_bind(c))

\* dhcp_handle: a NAK that is not rejected
HandleNak(s0) ==
  Bind(s0, LAMBDA s :
    Bind(dhcp_close(IF s.ifo.test THEN s ELSE unlink(dhcp_drop(s, "NAK"))),
         LAMBDA b :
           [b EXCEPT !.trace = Append(@, "eloop_timeout_add_sec"),
                     !.timers = TimeoutAdd(@, "start_interface", b.nakoff),
                     !.nakoff = NextNakoff(@),
                     !.naks = Min(@ + 1, MaxNaks)]))

\* dhcp_handle: the OFFER (or BOOTP reply) taken in DISCOVER
HandleOffer(s, m, in) ==
  Bind([s EXCEPT !.lease.frominfo = FALSE,
                 !.lease.addr = m.yiaddr,
                 !.lease.cookie = m.cookie,
                 !.lease.server = IF m.type = "BOOTP" \/ m.sid = 0
                                  THEN INADDR_ANY ELSE m.sid,
                 !.offer = m],
       LAMBDA a :
         IF a.ifo.test
         THEN [a EXCEPT !.trace = Append(@, "exit"),
                        !.old = a.new, !.new = a.offer, !.offer = NULL,
                        !.reason = "TEST", !.running = FALSE]
         ELSE Bind([a EXCEPT !.trace =
                               Append(@, "eloop_timeout_delete(send_discover)"),
                             !.timers = TimeoutDelete(@, "send_discover")],
                   LAMBDA b :
                     IF m.type # "BOOTP" THEN dhcp_request(b, in)
                     ELSE HandleAck(b, m, in)))

\* a dhcp_handle that never rejects a NAK
NakNeverRejected(a, m) == FALSE

\* dhcp_handle: the NAK that lacks the Server-ID the require mask asks for
NakRejected(a, m) == a.ifo.require54 /\ m.sid = 0

\* a dhcp_handle that leaves the backoff as it is
KeepNakoff(a) == a

\* dhcp_handle: "No NAK, so reset the backoff"
ResetNakoff(a) == [a EXCEPT !.nakoff = 0, !.naks = 0]

\* dhcp_handle; the three rejections are traced by their log lines
dhcp_handle(s0, m, in) ==
  Bind([s0 EXCEPT !.trace = Append(@, "dhcp_handle"), !.interval = 0], LAMBDA a :
    IF m.type = "NAK"
    THEN IF NakRejected(a, m) THEN Tr(a, "reject NAK")
         ELSE HandleNak(a)
    ELSE IF a.ifo.require54 /\ m.sid = 0 /\ m.type # "BOOTP"
    THEN Tr(a, "reject DHCP")
    ELSE IF /\ m.type \in {"BOOTP", "OFFER", "ACK"}
            /\ m.ciaddr \in {INADDR_ANY, INADDR_BROADCAST}
            /\ m.yiaddr \in {INADDR_ANY, INADDR_BROADCAST}
    THEN Tr(a, "reject invalid address")
    ELSE IF m.type \in {"BOOTP", "OFFER"} /\ a.state = DHS_DISCOVER
    THEN HandleOffer(ResetNakoff(a), m, in)
    ELSE IF m.type = "OFFER" THEN ResetNakoff(a)
    ELSE IF m.type \notin {"BOOTP", "ACK"} THEN ResetNakoff(a)
    ELSE HandleAck(ResetNakoff(a), m, in))

\* a dhcp_handlepacket that does not compare the xid
HandleAnyXid(s, m, in) ==
  IF m.cookie # MAGIC_COOKIE THEN s
  ELSE IF ~m.hw THEN s
  ELSE dhcp_handle(s, Held(m), in)

\* dhcp_handlepacket: one turn of its loop on the packet m just read
HandlePacket(s, m, in) ==
  IF m.cookie # MAGIC_COOKIE THEN s
  ELSE IF s.xid # m.xid THEN s
  ELSE IF ~m.hw THEN s
  ELSE dhcp_handle(s, Held(m), in)

(***************************************************************************)
(* The state: the fields of the interface, and                             *)
(*   running  the process has not called exit                              *)
(*   inwake   dhcp_handlepacket is in its loop, after a call of dhcp_handle *)
(*   faults   socket operations may fail in this run                       *)
(*   sent, trace, naks  history kept for the properties                    *)
(***************************************************************************)
VARIABLES state, xid, interval, nakoff, offer, new, old, lease, reason,
          timers, raw_fd, udp_fd, arp_fd, addr, net, leasefile,
          claims, probes, conflicts, ifo, running, inwake, faults,
          sent, trace, naks, gopt, wl, rn, hp

vars == <<state, xid, interval, nakoff, offer, new, old, lease, reason,
          timers, raw_fd, udp_fd, arp_fd, addr, net, leasefile,
          claims, probes, conflicts, ifo, running, inwake, faults,
          sent, trace, naks, gopt, wl, rn, hp>>

\* the interface as the handlers take it
Iface ==
  [state |-> state, xid |-> xid, interval |-> interval, nakoff |-> nakoff,
   offer |-> offer, new |-> new, old |-> old, lease |-> lease,
   reason |-> reason, timers |-> timers, raw_fd |-> raw_fd,
   udp_fd |-> udp_fd, arp_fd |-> arp_fd, addr |-> addr, net |-> net,
   leasefile |-> leasefile, claims |-> claims, probes |-> probes,
   conflicts |-> conflicts, ifo |-> ifo, running |-> running,
   sent |-> <<>>, trace |-> <<>>, naks |-> naks]

\* the interface as a handler leaves it
Becomes(r) ==
  /\ state' = r.state /\ xid' = r.xid /\ interval' = r.interval
  /\ nakoff' = r.nakoff /\ offer' = r.offer /\ new' = r.new /\ old' = r.old
  /\ lease' = r.lease /\ reason' = r.reason /\ timers' = r.timers
  /\ raw_fd' = r.raw_fd /\ udp_fd' = r.udp_fd /\ arp_fd' = r.arp_fd
  /\ addr' = r.addr /\ net' = r.net /\ leasefile' = r.leasefile
  /\ claims' = r.claims /\ probes' = r.probes /\ conflicts' = r.conflicts
  /\ running' = r.running /\ sent' = r.sent /\ trace' = r.trace
  /\ naks' = r.naks
  /\ ifo' = r.ifo
  /\ UNCHANGED <<faults, gopt, wl, rn, hp>>

\* send_message adds a random part in [DHCP_RAND_MIN, DHCP_RAND_MAX), that is
\* less than a second either way, to the interval; in the whole seconds of
\* the model the retransmission timer is set to the interval itself
Jitters == {0}
IoSet == IF faults THEN IoAll ELSE {IoOK}

Input(x, j, h, a, io) ==
  [xid |-> x, jit |-> j, hasaddr |-> h, age |-> a, io |-> io]

\* the configurations (if_options and the global options) tried
Config(arp, test, req, last, bc) ==
  [arp |-> arp, test |-> test, require54 |-> req, lastlease |-> last,
   broadcast |-> bc, reboot |-> DEFAULT_REBOOT,
   inform |-> FALSE, static |-> FALSE, req_addr |-> 0, req_mask |-> 0]

Configs ==
  { Config(TRUE, FALSE, FALSE, FALSE, FALSE),
    Config(FALSE, FALSE, FALSE, FALSE, TRUE),
    Config(FALSE, FALSE, TRUE, FALSE, FALSE),
    Config(FALSE, FALSE, FALSE, TRUE, FALSE),
    Config(FALSE, TRUE, FALSE, FALSE, FALSE) }

\* the lease file a previous run may have left
StoredLease ==
  Held(Msg("ACK", 0, MAGIC_COOKIE, TRUE, ADDR1, SERVER1, LeaseSecs, ABSENT,
           ABSENT))

\* After construction: start_interface about to run.  The interface has no
\* address, or it still has the address of the lease a previous run left (the
\* lease is kept when the link goes down, and dhcp_expire tells a reboot that
\* failed with no address from an expiry with one).
InitState ==
  /\ state = DHS_INIT /\ xid = 0 /\ interval = 0 /\ nakoff = 0
  /\ offer = NULL /\ new = NULL /\ old = NULL /\ lease = NoLease
  /\ reason = "NULL"
  /\ timers = TimeoutAdd(NoTimers, "start_interface", 0)
  /\ raw_fd = FALSE /\ udp_fd = FALSE /\ arp_fd = FALSE
  /\ leasefile \in {NULL, StoredLease}
  /\ addr \in IF leasefile = NULL THEN {0} ELSE {0, StoredLease.yiaddr}
  /\ net = IF addr = 0 THEN 0 ELSE MASK1
  /\ claims = 0 /\ probes = 0 /\ conflicts = 0
  /\ running = TRUE /\ inwake = FALSE
  /\ sent = <<>> /\ trace = <<>> /\ naks = 0

InitIface == InitState /\ ifo \in Configs

\* no call of get_option (gopt), write_lease (wl), route_netmask (rn) or of
\* the buffers of dhcp_handlepacket (hp) is followed byte by byte
NoCall == [pc |-> "idle"]
NoCalls == rn = NoCall /\ hp = NoCall

Init ==
  /\ InitIface /\ faults = FALSE /\ gopt = NoCall /\ wl = NoCall /\ NoCalls

\* a timer callback may run: the timer is due.  The event loop calls it once
\* dhcp_handlepacket, if it was in its loop, has found no more packets and
\* returned, which changes nothing of the interface.
MayFire(cb) == running /\ Due(timers, cb)
Fired(cb) == [Iface EXCEPT !.timers = Elapse(@, cb)]

TStartInterface ==
  /\ MayFire("start_interface")
  /\ \E x \in Xids, j \in Jitters, a \in 0..MaxAge, io \in IoSet :
       \E r \in {start_interface(Fired("start_interface"),
                 Input(x, j, FALSE, a, io))} :
         Becomes(r)
  /\ inwake' = FALSE

TSendDiscover ==
  /\ MayFire("send_discover")
  /\ \E j \in Jitters, io \in IoSet :
       \E r \in {send_discover(Fired("send_discover"),
                 Input(0, j, FALSE, 0, io))} :
         Becomes(r)
  /\ inwake' = FALSE

TSendRequest ==
  /\ MayFire("send_request")
  /\ \E j \in Jitters, io \in IoSet :
       \E r \in {send_request(Fired("send_request"),
                 Input(0, j, FALSE, 0, io))} :
         Becomes(r)
  /\ inwake' = FALSE

TSendRenew ==
  /\ MayFire("send_renew")
  /\ \E j \in Jitters, io \in IoSet :
       \E r \in {send_renew(Fired("send_renew"),
                 Input(0, j, FALSE, 0, io))} :
         Becomes(r)
  /\ inwake' = FALSE

TSendRebind ==
  /\ MayFire("send_rebind")
  /\ \E j \in Jitters, io \in IoSet :
       \E r \in {send_rebind(Fired("send_rebind"),
                 Input(0, j, FALSE, 0, io))} :
         Becomes(r)
  /\ inwake' = FALSE

TDhcpRenew ==
  /\ MayFire("dhcp_renew")
  /\ \E x \in Xids, j \in Jitters, io \in IoSet :
       \E r \in {dhcp_renew(Fired("dhcp_renew"),
                 Input(x, j, FALSE, 0, io))} :
         Becomes(r)
  /\ inwake' = FALSE

TDhcpRebind ==
  /\ MayFire("dhcp_rebind")
  /\ \E j \in Jitters, io \in IoSet :
       \E r \in {dhcp_rebind(Fired("dhcp_rebind"),
                 Input(0, j, FALSE, 0, io))} :
         Becomes(r)
  /\ inwake' = FALSE

TDhcpExpire ==
  /\ MayFire("dhcp_expire")
  /\ \E x \in Xids, j \in Jitters, io \in IoSet :
       \E r \in {dhcp_expire(Fired("dhcp_expire"),
                 Input(x, j, FALSE, 0, io))} :
         Becomes(r)
  /\ inwake' = FALSE

TDhcpTimeout ==
  /\ MayFire("dhcp_timeout")
  /\ \E x \in Xids, j \in Jitters, io \in IoSet :
       \E r \in {dhcp_timeout(Fired("dhcp_timeout"),
                 Input(x, j, FALSE, 0, io))} :
         Becomes(r)
  /\ inwake' = FALSE

\* ipv4_hasaddress is asked only where ARP is enabled
HasAddrs == IF ifo.arp THEN BOOLEAN ELSE {FALSE}

\* dhcp_handlepacket reads one more packet from the raw socket.  The loop goes
\* on while the raw socket stays open.  Of the messages only an OFFER makes
\* dhcp_handle open a socket or send.  A packet dropped before dhcp_handle
\* changes nothing of the interface, and the history of the last handler stays.
ReceiveFrom(A) ==
  /\ running /\ raw_fd
  /\ \E m \in A :
     \E j \in IF m.type = "OFFER" THEN Jitters ELSE {0},
        h \in IF m.type \in {"ACK", "BOOTP"} THEN HasAddrs ELSE {FALSE},
        io \in IF m.type = "OFFER" THEN IoSet ELSE {IoOK} :
     \E r \in {HandlePacket(Iface, m, Input(0, j, h, 0, io))} :
       IF r = Iface
       THEN UNCHANGED vars
       ELSE Becomes(r) /\ inwake' = (r.running /\ r.raw_fd)

Receive == ReceiveFrom(Arrivals(xid))

\* arp.c: the probes on the open ARP socket found no conflict
ArpOk ==
  /\ running /\ state = DHS_PROBE /\ arp_fd
  /\ \E r \in {arp_ok(Iface)} : Becomes(r)
  /\ inwake' = FALSE

\* arp.c: a probe found the offered address in use: decline it and start again
\* after DHCP_ARP_FAIL seconds
ArpConflict ==
  /\ running /\ state = DHS_PROBE /\ arp_fd
  /\ \E io \in IoSet :
       \E r \in {arp_conflict(Iface, Input(0, 0, FALSE, 0, io))} : Becomes(r)
  /\ inwake' = FALSE

\* dhcpcd.c: the user asks for the release of the lease; the process is on
\* its way out and does nothing more on the interface
Release ==
  /\ running
  /\ \E x \in Xids, io \in IoSet :
       \E r \in {dhcp_release(Iface, Input(x, 0, FALSE, 0, io))} :
         Becomes([r EXCEPT !.running = FALSE])
  /\ inwake' = FALSE

Next ==
  \/ TStartInterface \/ TSendDiscover \/ TSendRequest \/ TSendRenew
  \/ TSendRebind \/ TDhcpRenew \/ TDhcpRebind \/ TDhcpExpire \/ TDhcpTimeout
  \/ Receive \/ ArpOk \/ ArpConflict \/ Release

Spec == Init /\ [][Next]_vars

\* the runs in which socket operations may fail, in the configurations with
\* ARP and with the last lease
FaultConfigs ==
  { Config(TRUE, FALSE, FALSE, FALSE, FALSE),
    Config(FALSE, FALSE, FALSE, TRUE, FALSE) }
InitFaults ==
  /\ InitIface /\ ifo \in FaultConfigs /\ faults = TRUE
  /\ gopt = NoCall /\ wl = NoCall /\ NoCalls
SpecFaults == InitFaults /\ [][Next]_vars

\* the runs of an interface configured to INFORM for the address ADDR1, in
\* and out of test mode.  The server answers an INFORM with an ACK that has
\* ciaddr and no yiaddr.
InformConfig(test) ==
  [Config(FALSE, test, FALSE, FALSE, FALSE)
     EXCEPT !.inform = TRUE, !.req_addr = ADDR1, !.req_mask = MASK1]
InformAck(x) ==
  [Msg("ACK", x, MAGIC_COOKIE, TRUE, 0, SERVER1, ABSENT, ABSENT, ABSENT)
     EXCEPT !.ciaddr = ADDR1]
InformArrivals(x) == Arrivals(x) \cup {InformAck(x)}

TSendInform ==
  /\ MayFire("send_inform")
  /\ \E j \in Jitters, io \in IoSet :
       \E r \in {send_inform(Fired("send_inform"),
                 Input(0, j, FALSE, 0, io))} :
         Becomes(r)
  /\ inwake' = FALSE

ReceiveInform == ReceiveFrom(InformArrivals(xid))

InitInform ==
  /\ InitState /\ ifo \in {InformConfig(FALSE), InformConfig(TRUE)}
  /\ faults = FALSE /\ gopt = NoCall /\ wl = NoCall /\ NoCalls
NextInform == TStartInterface \/ TSendInform \/ ReceiveInform \/ Release
SpecInform == InitInform /\ [][NextInform]_vars

(***************************************************************************)
(* dhcp_handlepacket with all the packets of one wake.  A packet is a       *)
(* message and what is wrong with the frame that carries it: "none", or     *)
(* "udp" (valid_udp_packet fails), "whitelist", "blacklist", "oversize".    *)
(***************************************************************************)
Pkt(m, fault) == [msg |-> m, fault |-> fault]

\* the checks of the loop that end in continue
Refused(s, pk) ==
  \/ pk.fault # "none"
  \/ pk.msg.cookie # MAGIC_COOKIE
  \/ s.xid # pk.msg.xid
  \/ ~pk.msg.hw

\* a dhcp_handlepacket that leaves the loop at the first packet it refuses
RECURSIVE HandlePacketBreaks(_, _, _)
HandlePacketBreaks(s, q, in) ==
  IF q = <<>> THEN s
  ELSE IF Refused(s, Head(q)) THEN Tr(s, "continue")
  ELSE Bind(dhcp_handle(s, Held(Head(q).msg), in), LAMBDA r :
         IF ~r.raw_fd \/ ~r.running THEN r
         ELSE HandlePacketBreaks(r, Tail(q), in))

\* dhcp_handlepacket: q holds the packets get_raw_packet returns, in order,
\* before it returns 0.  A refused packet is marked "continue" in the trace.
RECURSIVE dhcp_handlepacket(_, _, _)
dhcp_handlepacket(s, q, in) ==
  IF q = <<>> THEN s
  ELSE IF Refused(s, Head(q))
  THEN dhcp_handlepacket(Tr(s, "continue"), Tail(q), in)
  ELSE Bind(dhcp_handle(s, Held(Head(q).msg), in), LAMBDA r :
         IF ~r.raw_fd \/ ~r.running THEN r
         ELSE dhcp_handlepacket(r, Tail(q), in))

\* packets the loop refuses, one for each check, and the wakes tried: one
\* packet, or a refused packet followed by an ACK, an OFFER or a NAK
Faults == {"udp", "whitelist", "blacklist", "oversize"}
AckOf(x) ==
  Msg("ACK", x, MAGIC_COOKIE, TRUE, ADDR1, SERVER1, LeaseSecs, ABSENT, ABSENT)
BadPackets(x) ==
  { Pkt(AckOf(x), f) : f \in Faults }
  \cup { Pkt([AckOf(x) EXCEPT !.cookie = 0], "none"),
         Pkt([AckOf(x) EXCEPT !.xid = (x + 1) % (MaxXid + 1)], "none"),
         Pkt([AckOf(x) EXCEPT !.hw = FALSE], "none") }
GoodPackets(x) ==
  { Pkt(AckOf(x), "none"),
    Pkt(Msg("OFFER", x, MAGIC_COOKIE, TRUE, ADDR1, SERVER1, ABSENT, ABSENT,
            ABSENT), "none"),
    Pkt(Msg("NAK", x, MAGIC_COOKIE, TRUE, 0, SERVER1, ABSENT, ABSENT, ABSENT),
        "none") }
Wakes(x) ==
  { <<Pkt(m, "none")>> : m \in Arrivals(x) }
  \cup { <<b, g>> : b \in BadPackets(x), g \in GoodPackets(x) }

ReceiveWake ==
  /\ running /\ raw_fd
  /\ \E q \in Wakes(xid) :
       \E r \in {dhcp_handlepacket(Iface, q, Input(xid, 0, FALSE, 0, IoOK))} : Becomes(r)
  /\ inwake' = FALSE

\* the runs of one configuration (broadcast flag) with whole wakes
InitWake ==
  /\ InitState /\ ifo = Config(FALSE, FALSE, FALSE, FALSE, TRUE)
  /\ faults = FALSE /\ gopt = NoCall /\ wl = NoCall /\ NoCalls
NextWake ==
  \/ TStartInterface \/ TSendDiscover \/ TSendRequest \/ TSendRenew
  \/ TSendRebind \/ TDhcpRenew \/ TDhcpRebind \/ TDhcpExpire
  \/ ReceiveWake \/ Release
SpecWake == InitWake /\ [][NextWake]_vars

(***************************************************************************)
(* get_option on the bytes of a message.  The message is the part of       *)
(* struct dhcp_message from servername on: servername, bootfile, cookie,   *)
(* options, each area scaled down to AreaSize bytes.  A pointer is the     *)
(* offset of a byte in it.  One step is one iteration of the loop.         *)
(***************************************************************************)
\* TLV items an area is filled with: 0..MaxItems
MaxItems == 2

DHO_PAD == 0
DHO_END == 255
DHO_HOSTNAME == 12
DHO_MESSAGETYPE == 53
DHO_OPTIONSOVERLOADED == 52

\* sizeof(dhcp->servername), sizeof(dhcp->bootfile), sizeof(dhcp->options):
\* room for MaxItems items of three bytes and END
AreaSize == 3 * MaxItems + 2
SnameBase == 0
FileBase == AreaSize
OptionsBase == 2 * AreaSize + 4
\* sizeof(struct dhcp_message), the size of opt_buffer
StructSize == 3 * AreaSize + 4

\* items: the option asked for with a value of one byte, the overload
\* option, a pad byte
Seg(v) == <<DHO_HOSTNAME, 1, v>>
Ov(k) == <<DHO_OPTIONSOVERLOADED, 1, k>>
Pad == <<DHO_PAD>>

RECURSIVE Flatten(_)
Flatten(q) == IF q = <<>> THEN <<>> ELSE Head(q) \o Flatten(Tail(q))

\* an area: up to MaxItems items, END, then zeros as xzalloc left them
Areas(S) ==
  { Flatten(q) \o <<DHO_END>> \o
      [i \in 1..(AreaSize - Len(Flatten(q)) - 1) |-> DHO_PAD] :
      q \in UNION { [1..n -> S] : n \in 0..MaxItems } }

OptionsAreas == Areas({Seg(11), Ov(1), Ov(3)})
FileAreas == Areas({Pad, Seg(12), Ov(1)})
SnameAreas == Areas({Pad, Seg(13), Ov(2)})

Messages ==
  { s \o f \o <<99, 130, 83, 99>> \o o :
      s \in SnameAreas, f \in FileAreas, o \in OptionsAreas }

NOPTR == 0 - 1

\* the bytes p[0..n-1]
BytesAt(mem, p, n) == [i \in 1..n |-> mem[p + i]]

\* validate_length for the message type (UINT8) and for an option of type
\* STRING
validate_length(option, dl) ==
  IF dl = 0 THEN 0 - 1
  ELSE IF option = DHO_MESSAGETYPE THEN 1
  ELSE dl

\* get_option entered: p = dhcp->options, e = p + sizeof(dhcp->options)
GetOptionCall(mem, opt) ==
  [pc |-> "loop", mem |-> mem, opt |-> opt,
   p |-> OptionsBase, e |-> OptionsBase + AreaSize,
   ol |-> 0, overl |-> 0, bp |-> NOPTR, op |-> NOPTR, bl |-> 0, buf |-> <<>>,
   file |-> 0, sname |-> 0]

\* if (o == opt): the segment found before goes to opt_buffer, the new one
\* is remembered.  Writing past opt_buffer and reading past the message are
\* undefined.
Found(g) ==
  IF g.p + 1 >= StructSize THEN [g EXCEPT !.pc = "undefined"]
  ELSE Bind(IF g.op = NOPTR THEN g
            ELSE IF Len(g.buf) + g.ol > StructSize \/ g.op + g.ol > StructSize
            THEN [g EXCEPT !.pc = "undefined"]
            ELSE [g EXCEPT !.bp = Len(g.buf) + g.ol,
                           !.buf = @ \o BytesAt(g.mem, g.op, g.ol)],
            LAMBDA c : [c EXCEPT !.ol = c.mem[c.p + 2], !.op = c.p + 2,
                                 !.bl = @ + c.mem[c.p + 2]])

\* l = *p++; p += l
SkipValue(g) ==
  IF g.p >= StructSize THEN [g EXCEPT !.pc = "undefined"]
  ELSE [g EXCEPT !.p = g.p + 1 + g.mem[g.p + 1]]

\* the switch on the code o and the skip of the value; g.p is past the code.
\* file and sname count the times the area was entered, 2 for "twice or more"
Switch(g, o) ==
  IF o = DHO_PAD THEN g
  ELSE IF o = DHO_END
  THEN IF g.overl % 2 = 1
       THEN SkipValue([g EXCEPT !.overl = @ - 1, !.p = FileBase,
                                !.e = FileBase + AreaSize,
                                !.file = Min(@ + 1, 2)])
       ELSE IF (g.overl \div 2) % 2 = 1
       THEN SkipValue([g EXCEPT !.overl = @ - 2, !.p = SnameBase,
                                !.e = SnameBase + AreaSize,
                                !.sname = Min(@ + 1, 2)])
       ELSE [g EXCEPT !.pc = "exit"]
  ELSE IF o = DHO_OPTIONSOVERLOADED
  THEN IF g.overl # 0 THEN SkipValue(g)
       ELSE IF g.p + 1 >= StructSize THEN [g EXCEPT !.pc = "undefined"]
       ELSE SkipValue([g EXCEPT !.overl = g.mem[g.p + 2]])
  ELSE SkipValue(g)

\* one iteration of while (p < e)
Iteration(g) ==
  IF ~(g.p < g.e) THEN [g EXCEPT !.pc = "exit"]
  ELSE Bind(g.mem[g.p + 1], LAMBDA o :
         Bind(IF o = g.opt THEN Found(g) ELSE g, LAMBDA c :
           IF c.pc = "undefined" THEN c
           ELSE Switch([c EXCEPT !.p = g.p + 1], o)))

\* from the label exit on: the value returned and *len
Return(g) ==
  Bind(validate_length(g.opt, g.bl), LAMBDA bl :
    IF bl = 0 - 1 THEN [g EXCEPT !.pc = "done", !.buf = <<>>, !.bl = bl]
    ELSE IF g.bp # NOPTR
    THEN IF Len(g.buf) + g.ol > StructSize \/ g.op + g.ol > StructSize
         THEN [g EXCEPT !.pc = "undefined"]
         ELSE [g EXCEPT !.pc = "done", !.bl = bl,
                        !.buf = @ \o BytesAt(g.mem, g.op, g.ol)]
    ELSE IF g.op # NOPTR
    THEN IF g.op + bl > StructSize THEN [g EXCEPT !.pc = "undefined"]
         ELSE [g EXCEPT !.pc = "done", !.bl = bl,
                        !.buf = BytesAt(g.mem, g.op, bl)]
    ELSE [g EXCEPT !.pc = "done", !.buf = <<>>, !.bl = 0 - 1])

\* the interface is idle while a call is followed byte by byte
IfaceIdle ==
  UNCHANGED <<state, xid, interval, nakoff, offer, new, old, lease, reason,
              timers, raw_fd, udp_fd, arp_fd, addr, net, leasefile,
              claims, probes, conflicts, ifo, running, inwake, faults,
              sent, trace, naks>>

GetOptionScan ==
  /\ gopt.pc = "loop"
  /\ gopt' = Iteration(gopt)
  /\ IfaceIdle /\ UNCHANGED <<wl, rn, hp>>

GetOptionExit ==
  /\ gopt.pc = "exit"
  /\ gopt' = Return(gopt)
  /\ IfaceIdle /\ UNCHANGED <<wl, rn, hp>>

\* get_option called for the host name of every message, the interface idle
InitOptions ==
  /\ InitState /\ leasefile = NULL
  /\ ifo = Config(FALSE, FALSE, FALSE, FALSE, FALSE) /\ faults = FALSE
  /\ gopt \in { GetOptionCall(m, DHO_HOSTNAME) : m \in Messages }
  /\ wl = NoCall /\ NoCalls
NextOptions == GetOptionScan \/ GetOptionExit
SpecOptions == InitOptions /\ [][NextOptions]_vars
\* a call that has started goes on
FairOptions == SpecOptions /\ WF_vars(NextOptions)

\* messages as a sender may cut them: an area is items and pad bytes with,
\* at its very end, END, a whole item, a code whose length byte is missing,
\* or an item whose value runs one byte past the area
AreaEnds ==
  { <<DHO_END>>, Seg(11), <<DHO_HOSTNAME>>, <<DHO_HOSTNAME, 2, 11>> }
CutAreas(S) ==
  { Flatten(q) \o [i \in 1..(AreaSize - Len(Flatten(q)) - Len(t)) |-> DHO_PAD]
      \o t :
      q \in UNION { [1..n -> S] : n \in 0..(MaxItems - 1) }, t \in AreaEnds }
CutMessages ==
  { s \o f \o <<99, 130, 83, 99>> \o o :
      s \in Areas({}), f \in CutAreas({Seg(12)}),
      o \in CutAreas({Seg(11), Ov(1)}) }

\* the offsets one iteration of the loop reads while it scans: the code, the
\* length of an option found, the value of the overload option, the length
\* it skips by
ScanReads(g) ==
  LET o == g.mem[g.p + 1]
  IN  {g.p}
      \cup (IF o = g.opt THEN {g.p + 1} ELSE {})
      \cup (IF o = DHO_PAD THEN {}
            ELSE IF o = DHO_END
            THEN IF g.overl % 2 = 1 THEN {FileBase}
                 ELSE IF (g.overl \div 2) % 2 = 1 THEN {SnameBase}
                 ELSE {}
            ELSE IF o = DHO_OPTIONSOVERLOADED /\ g.overl = 0
            THEN {g.p + 1, g.p + 2}
            ELSE {g.p + 1})

InitCut ==
  /\ InitState /\ leasefile = NULL
  /\ ifo = Config(FALSE, FALSE, FALSE, FALSE, FALSE) /\ faults = FALSE
  /\ gopt \in { GetOptionCall(m, DHO_HOSTNAME) : m \in CutMessages }
  /\ wl = NoCall /\ NoCalls
SpecCut == InitCut /\ [][NextOptions]_vars

(***************************************************************************)
(* write_lease on the bytes of a message.                                  *)
(***************************************************************************)
\* get_option run to its return
RECURSIVE GetOption(_)
GetOption(g) ==
  IF g.pc = "loop" THEN GetOption(Iteration(g))
  ELSE IF g.pc = "exit" THEN Return(g)
  ELSE g

\* is_bootp (dhcp-common): get_option_uint8 finds no message type
IsBootp(mem) ==
  GetOption(GetOptionCall(mem, DHO_MESSAGETYPE)).bl = 0 - 1

\* the messages handed to write_lease: no overload option; a message type,
\* the host name or a pad byte as items; after END the options area holds
\* zeros or bytes left from before (7)
Type(t) == <<DHO_MESSAGETYPE, 1, t>>
LeaseAreas ==
  { Flatten(q) \o <<DHO_END>> \o
      [i \in 1..(AreaSize - Len(Flatten(q)) - 1) |-> j] :
      q \in UNION { [1..n -> {Type(5), Seg(11), Pad}] : n \in 0..MaxItems },
      j \in {DHO_PAD, 7} }
LeaseMessages ==
  { s \o f \o <<99, 130, 83, 99>> \o o :
      s \in Areas({}), f \in FileAreas, o \in LeaseAreas }

NOFILE == <<0 - 1>>

\* a write_lease that counts the END byte in
RECURSIVE LeaseBytesWithEnd(_, _)
LeaseBytesWithEnd(mem, p) ==
  IF ~(p < OptionsBase + AreaSize) THEN StructSize
  ELSE IF mem[p + 1] = DHO_END THEN p + 1
  ELSE IF mem[p + 1] = DHO_PAD THEN LeaseBytesWithEnd(mem, p + 1)
  ELSE IF p + 1 >= StructSize THEN 0 - 1
  ELSE LeaseBytesWithEnd(mem, p + 2 + mem[p + 2])

\* write_lease, the loop: the count of bytes to write.  p is the offset of
\* the next code, bytes is sizeof(*dhcp) unless END is met
RECURSIVE LeaseBytes(_, _)
LeaseBytes(mem, p) ==
  IF ~(p < OptionsBase + AreaSize) THEN StructSize
  ELSE IF mem[p + 1] = DHO_END THEN p
  ELSE IF mem[p + 1] = DHO_PAD THEN LeaseBytes(mem, p + 1)
  ELSE IF p + 1 >= StructSize THEN 0 - 1
  ELSE LeaseBytes(mem, p + 2 + mem[p + 2])

\* write_lease (open succeeds): the call with the file it leaves
WriteLeaseBytes(w) ==
  IF IsBootp(w.mem) THEN [w EXCEPT !.pc = "done", !.file = NOFILE]
  ELSE Bind(LeaseBytes(w.mem, OptionsBase), LAMBDA bytes :
         IF bytes = 0 - 1 THEN [w EXCEPT !.pc = "undefined"]
         ELSE [w EXCEPT !.pc = "done", !.file = BytesAt(w.mem, 0, bytes)])

WriteLease ==
  /\ wl.pc = "call"
  /\ wl' = WriteLeaseBytes(wl)
  /\ IfaceIdle /\ UNCHANGED <<gopt, rn, hp>>

\* write_lease called with every message, with and without a lease file
\* from before
InitLease ==
  /\ InitState /\ leasefile = NULL
  /\ ifo = Config(FALSE, FALSE, FALSE, FALSE, FALSE) /\ faults = FALSE
  /\ gopt = NoCall /\ NoCalls
  /\ wl \in [pc : {"call"}, mem : LeaseMessages, file : {NOFILE, <<7, 7>>}]
SpecLease == InitLease /\ [][WriteLease]_vars

(***************************************************************************)
(* route_netmask.  An address is its four octets in network byte order; a  *)
(* uint32_t in host order is its 32 bits, the most significant first.      *)
(***************************************************************************)
OctetBits(n) == [i \in 1..8 |-> (n \div (2 ^ (8 - i))) % 2]
BitsOctet(b) ==
  128 * b[1] + 64 * b[2] + 32 * b[3] + 16 * b[4]
  + 8 * b[5] + 4 * b[6] + 2 * b[7] + b[8]
ntohl(a) ==
  OctetBits(a[1]) \o OctetBits(a[2]) \o OctetBits(a[3]) \o OctetBits(a[4])
htonl(w) ==
  << BitsOctet(SubSeq(w, 1, 8)), BitsOctet(SubSeq(w, 9, 16)),
     BitsOctet(SubSeq(w, 17, 24)), BitsOctet(SubSeq(w, 25, 32)) >>

IN_CLASSA(p) == p[1] = 0
IN_CLASSB(p) == p[1] = 1 /\ p[2] = 0
IN_CLASSC(p) == p[1] = 1 /\ p[2] = 1 /\ p[3] = 0
\* ~IN_CLASSx_NET: ones below the n network bits
NotNet(n) == [i \in 1..32 |-> IF i > n THEN 1 ELSE 0]
BitNot(w) == [i \in 1..32 |-> 1 - w[i]]
BitAnd(v, w) == [i \in 1..32 |-> v[i] * w[i]]
NonZero(w) == \E i \in 1..32 : w[i] = 1
ShiftRight(w) == <<0>> \o SubSeq(w, 1, 31)

\* the mask of the class alone
ClassNetmask(ip_in) ==
  LET p == ntohl(ip_in)
      t == IF IN_CLASSA(p) THEN NotNet(8)
           ELSE IF IN_CLASSB(p) THEN NotNet(16)
           ELSE IF IN_CLASSC(p) THEN NotNet(24)
           ELSE NotNet(32)
  IN  htonl(BitNot(t))

\* while (t & p) t >>= 1;
RECURSIVE ShiftClear(_, _)
ShiftClear(t, p) ==
  IF NonZero(BitAnd(t, p)) THEN ShiftClear(ShiftRight(t), p) ELSE t

route_netmask(ip_in) ==
  LET p == ntohl(ip_in)
      t == IF IN_CLASSA(p) THEN NotNet(8)
           ELSE IF IN_CLASSB(p) THEN NotNet(16)
           ELSE IF IN_CLASSC(p) THEN NotNet(24)
           ELSE NotNet(32)
  IN  htonl(BitNot(ShiftClear(t, p)))

\* the destinations route_netmask is called with
Dests ==
  { <<a, b, c, d>> : a \in {10, 127, 128, 172, 191, 192, 223, 224},
                     b \in {0, 1, 16, 168}, c \in {0, 1, 2, 128},
                     d \in {0, 1, 3, 128, 255} }

RouteNetmask ==
  /\ rn.pc = "call"
  /\ rn' = [rn EXCEPT !.pc = "done", !.net = route_netmask(rn.dest)]
  /\ IfaceIdle /\ UNCHANGED <<gopt, wl, hp>>

InitRoute ==
  /\ InitState /\ leasefile = NULL
  /\ ifo = Config(FALSE, FALSE, FALSE, FALSE, FALSE) /\ faults = FALSE
  /\ gopt = NoCall /\ wl = NoCall /\ hp = NoCall
  /\ rn \in [pc : {"call"}, dest : Dests, net : {<<0, 0, 0, 0>>}]
SpecRoute == InitRoute /\ [][RouteNetmask]_vars

(***************************************************************************)
(* The buffers of dhcp_handlepacket.  A message is scaled down to the xid, *)
(* the chaddr and the cookie, one byte each, and MaxOpts bytes of options.  *)
(* The interface expects xid 1 and chaddr 1; the cookie byte is 99.  A      *)
(* packet is the bytes get_udp_data returns and whether it passes the UDP   *)
(* and address list checks before them.                                     *)
(***************************************************************************)
MaxOpts == 2
MsgSize == 3 + MaxOpts
MsgXid(b) == b[1]
MsgChaddr(b) == b[2]
MsgCookie(b) == b[3]
Zeros(n) == [i \in 1..n |-> 0]
NOBUF == <<>>

RECURSIVE ByteSeqs(_, _)
ByteSeqs(S, n) ==
  IF n = 0 THEN {<<>>}
  ELSE { <<b>> \o r : b \in S, r \in ByteSeqs(S, n - 1) }

\* whole messages, one byte too long, and what a sender cuts them down to
WireMessages ==
  { <<x, c, k>> \o o : x \in {1, 2}, c \in {1, 2}, k \in {99, 0},
                       o \in ByteSeqs({5, 6}, MaxOpts) }
WirePackets ==
  { [bytes |-> SubSeq(m \o <<7>>, 1, n), ok |-> v] :
      m \in WireMessages, n \in 1..(MsgSize + 1), v \in BOOLEAN }
WireQueues ==
  { <<a>> : a \in WirePackets }
  \cup { <<a, b>> : a \in WirePackets,
                    b \in { w \in WirePackets : w.ok } }

\* one pass of the for loop: the packet at the head of the queue.  kept tells
\* whether dhcp_handle took the message (set *dhcpp to NULL), closed whether
\* it closed the raw socket.
HandlePacketPass(h, kept, closed) ==
  IF h.q = <<>> THEN [h EXCEPT !.pc = "done"]
  ELSE LET pk == Head(h.q)
           next == [h EXCEPT !.q = Tail(@)]
           bytes == Len(pk.bytes)
       IN  IF ~pk.ok THEN next
           ELSE IF bytes > MsgSize THEN next
           ELSE LET dhcp0 == IF h.dhcp = NOBUF THEN Zeros(MsgSize)
                             ELSE h.dhcp
                    dhcp == pk.bytes \o SubSeq(dhcp0, bytes + 1, MsgSize)
                    copied == [next EXCEPT !.dhcp = dhcp]
                IN  IF MsgCookie(dhcp) # 99 THEN copied
                    ELSE IF MsgXid(dhcp) # 1 THEN copied
                    ELSE IF MsgChaddr(dhcp) # 1 THEN copied
                    ELSE [copied EXCEPT
                            !.msg = dhcp, !.len = bytes,
                            !.dhcp = IF kept THEN NOBUF ELSE dhcp,
                            !.pc = IF closed THEN "done" ELSE "loop"]

HandlePacketLoop ==
  /\ hp.pc = "loop"
  /\ \E kept, closed \in BOOLEAN : hp' = HandlePacketPass(hp, kept, closed)
  /\ IfaceIdle /\ UNCHANGED <<gopt, wl, rn>>

InitPackets ==
  /\ InitState /\ leasefile = NULL
  /\ ifo = Config(FALSE, FALSE, FALSE, FALSE, FALSE) /\ faults = FALSE
  /\ gopt = NoCall /\ wl = NoCall /\ rn = NoCall
  /\ hp \in [pc : {"loop"}, q : WireQueues, dhcp : {NOBUF}, msg : {NOBUF},
             len : {0}]
SpecPackets == InitPackets /\ [][HandlePacketLoop]_vars

TypeOK == state \in {DHS_INIT, DHS_DISCOVER, DHS_REQUEST, DHS_BOUND, DHS_RENEW,
                     DHS_REBIND, DHS_REBOOT, DHS_PROBE, DHS_INFORM}

(***************************************************************************)
(* Properties.  The functions the last handler called are in trace and the *)
(* messages it sent in sent; a property on what a handler does to a state  *)
(* applies the handler to every reachable state it can run from.           *)
(***************************************************************************)
Range(q) == { q[i] : i \in 1..Len(q) }
Called(f) == f \in Range(trace)

\* the inputs of a handler in a run without I/O failures
In(x, h) == Input(x, 0, h, 0, IoOK)

\* the packet m passes the checks of dhcp_handlepacket and the checks of
\* dhcp_handle on required options and on the offered address
Dispatched(m) ==
  /\ m.cookie = MAGIC_COOKIE /\ m.xid = xid /\ m.hw
  /\ ~(ifo.require54 /\ m.sid = 0)
Accepted(m, type) ==
  /\ m.type = type /\ Dispatched(m)
  /\ (type = "NAK" \/ m.yiaddr \notin {INADDR_ANY, INADDR_BROADCAST})

\* the calls of dhcp_bind that can be made from the current state, each with
\* the offer it is called with, the caller and the interface it leaves:
\* dhcp_handle on an accepted ACK that needs no probe, the ARP engine on a
\* probe without conflict, dhcp_timeout
Binds ==
  { [offer |-> Held(m), by |-> "dhcp_handle", to |-> HandlePacket(Iface, m, In(0, h))] :
      <<m, h>> \in { <<m, h>> \in Arrivals(xid) \X HasAddrs :
                       /\ running /\ raw_fd
                       /\ Accepted(m, "ACK")
                       /\ ~(ifo.arp /\ m.yiaddr # addr /\ ~h) } }
  \cup { [offer |-> offer, by |-> "arp", to |-> arp_ok(Iface)] :
           x \in { x \in {0} : running /\ state = DHS_PROBE /\ arp_fd } }
  \cup { [offer |-> offer, by |-> "dhcp_timeout",
          to |-> dhcp_bind(Tr(Fired("dhcp_timeout"), "dhcp_timeout"))] :
           x \in { x \in {0} : MayFire("dhcp_timeout") } }

LeaseTimers == {"dhcp_renew", "dhcp_rebind", "dhcp_expire"}

\* C1: after dhcp_bind of a DHCP lease whose lease time is finite,
\* 0 < renewaltime < rebindtime < leasetime, whatever options 51, 58 and 59
\* the server sent.
C1_LeaseTimesOrdered ==
  \A b \in Binds :
    (b.to.running /\ ~is_bootp(b.offer) /\ b.to.lease.leasetime # INFINITE)
    => /\ 0 < b.to.lease.renewaltime
       /\ b.to.lease.renewaltime < b.to.lease.rebindtime
       /\ b.to.lease.rebindtime < b.to.lease.leasetime

\* the delay of the k-th of consecutive NAKs: 0, 1, 2, 4, 8, 16, 32, 60, 60, ...
NakDelay(k) == IF k <= 8 THEN <<0, 1, 2, 4, 8, 16, 32, 60>>[k] ELSE 60
NakTaken == Called("eloop_timeout_add_sec")

\* C2: the k-th of consecutive accepted NAKs, with no accepted message of
\* another type in between, schedules start_interface after the k-th of the
\* delays 0, 1, 2, 4, 8, 16, 32, 60, 60, ... seconds, and nakoff, the delay of
\* the next one, never exceeds 60.
C2_NakBackoff ==
  /\ nakoff = NakDelay(naks + 1)
  /\ nakoff <= 60
  /\ NakTaken => (naks >= 1 /\ timers["start_interface"] = NakDelay(naks))

C2_Witness ==
  NakTaken /\ naks >= 8 /\ timers["start_interface"] = 60 /\ nakoff = 60

\* the retransmission interval that follows b: 4 after 0, then doubled up to 64
Backoff(b) == IF b = 0 THEN 4 ELSE IF 2 * b > 64 THEN 64 ELSE 2 * b
Retransmits(tr) == Range(tr) \cap RetransmitTimers # {}
ResetsInterval(tr) ==
  Range(tr) \cap {"dhcp_handle", "dhcp_expire", "dhcp_timeout"} # {}
Retransmitting == {DHS_DISCOVER, DHS_REQUEST, DHS_RENEW, DHS_REBIND}

C5_AckClosesThenProbesOrBinds ==
  (running /\ raw_fd) =>
    \A m \in Arrivals(xid), h \in HasAddrs : Accepted(m, "ACK") =>
      \A r \in {HandlePacket(Iface, m, In(0, h))} :
        /\ Len(r.trace) >= 4
        /\ SubSeq(r.trace, 1, 3) =
             <<"dhcp_handle", "eloop_timeout_delete(NULL)", "dhcp_close">>
        /\ IF ifo.arp /\ m.yiaddr # addr /\ ~h
           THEN /\ r.trace = <<"dhcp_handle", "eloop_timeout_delete(NULL)",
                               "dhcp_close", "arp_probe">>
                /\ r.state = DHS_PROBE
                /\ r.claims = 0 /\ r.probes = 0 /\ r.conflicts = 0
                /\ r.offer = Held(m)
                /\ r.timers = NoTimers
                /\ ~r.raw_fd /\ ~r.udp_fd
           ELSE /\ r.trace[4] = "dhcp_bind"
                /\ "arp_probe" \notin Range(r.trace)
                /\ r.state # DHS_PROBE
                /\ r.new = Held(m)
                /\ Pending(r.timers) \subseteq LeaseTimers
                /\ ~r.raw_fd /\ ~r.udp_fd

C5_Witness ==
  /\ state = DHS_PROBE /\ arp_fd /\ ~raw_fd /\ ~udp_fd
  /\ trace = <<"dhcp_handle", "eloop_timeout_delete(NULL)", "dhcp_close", "arp_probe">>
  /\ offer # NULL /\ offer.type = "ACK" /\ offer.yiaddr # addr
  /\ timers = NoTimers

\* the last handler took an ACK up to the point where it becomes the offer
AckTaken == Called("dhcp_handle") /\ Called("eloop_timeout_delete(NULL)")

\* C6: from the moment an ACK is accepted until dhcp_bind has completed, the
\* time in PROBE included, no further inbound message is handled: the wake in
\* which the ACK was read ends with it, and in PROBE the sockets are closed,
\* no packet can be read and the offer stays.
C6_NoMessageAfterAck ==
  /\ (running /\ AckTaken) => (~inwake /\ ~raw_fd /\ ~udp_fd)
  /\ (running /\ state = DHS_PROBE) =>
       /\ ~inwake /\ ~raw_fd /\ ~udp_fd
       /\ ~ENABLED Receive
       /\ offer # NULL /\ offer.type \in {"ACK", "BOOTP"}

C6_Witness ==
  /\ running /\ state = DHS_PROBE /\ AckTaken /\ ~inwake /\ ~raw_fd
  /\ offer # NULL /\ offer.type = "ACK"

\* C7: outside test mode a NAK that is accepted, in any state, drops the lease
\* with reason NAK (new becomes NULL, lease.addr 0), unlinks the lease file,
\* closes the raw, UDP and ARP sockets and schedules start_interface after the
\* current nakoff seconds.
C7_NakDropsAndRestarts ==
  (running /\ raw_fd /\ ~ifo.test) =>
    \A m \in Arrivals(xid) : Accepted(m, "NAK") =>
      \A r \in {HandlePacket(Iface, m, In(0, FALSE))} :
        /\ "dhcp_drop" \in Range(r.trace)
        /\ r.reason = "NAK"
        /\ r.new = NULL /\ r.lease.addr = 0
        /\ r.leasefile = NULL
        /\ ~r.raw_fd /\ ~r.udp_fd /\ ~r.arp_fd
        /\ r.timers["start_interface"] = nakoff

C7_Witness ==
  /\ state = DHS_RENEW /\ NakTaken /\ Called("dhcp_drop") /\ reason = "NAK"
  /\ new = NULL /\ old = NULL /\ lease.addr = 0 /\ addr = 0
  /\ leasefile = NULL /\ ~raw_fd /\ ~udp_fd /\ ~arp_fd
  /\ timers["start_interface"] # NOTIMER

C9_RenewRebindExpire ==
  [][/\ "dhcp_rebind" \in Range(trace') => state = DHS_RENEW
     /\ ("dhcp_expire" \in Range(trace')
           /\ state \in {DHS_BOUND, DHS_RENEW, DHS_REBIND})
          => state = DHS_REBIND]_vars

\* the REQUEST that dhcp_renew sends when the renew timer fires in BOUND
RenewFrom(P(_, _)) ==
  (running /\ state = DHS_BOUND /\ MayFire("dhcp_renew")) =>
    \A x \in Xids :
      \A r \in {dhcp_renew(Fired("dhcp_renew"), In(x, FALSE))} :
        /\ r.state = DHS_RENEW
        /\ r.xid = x /\ r.xid # xid
        /\ Len(r.sent) = 1
        /\ r.sent[1].msg.type = "REQUEST"
        /\ r.sent[1].msg.xid = x
        /\ P(r.sent[1], lease.server)
        /\ addr # 0 /\ r.sent[1].msg.ciaddr = addr
        /\ ~r.sent[1].msg.bflag
        /\ r.timers["dhcp_rebind"] # NOTIMER
        /\ r.timers["dhcp_expire"] # NOTIMER

\* C10 as stated: when the renew timer fires on a BOUND interface the state
\* becomes RENEW, a new xid is chosen and the REQUEST is sent unicast to
\* lease.server with ciaddr the address of the interface and the BROADCAST
\* flag clear; the rebind and expire timers stay pending.
C10_RenewUnicast ==
  RenewFrom(LAMBDA p, server : p.via = "udp" /\ p.to = server /\ server # 0)

\* C10, amended: ... the REQUEST is sent unicast to lease.server when the
\* lease has a server address (lease.server is neither 0 nor
\* 255.255.255.255) and by link-layer broadcast otherwise, in both cases
\* with ciaddr the address of the interface and the BROADCAST flag clear; the
\* rebind and expire timers stay pending.
C10_RenewUnicastIfServer ==
  RenewFrom(LAMBDA p, server :
              IF server \notin {INADDR_ANY, INADDR_BROADCAST}
              THEN p.via = "udp" /\ p.to = server
              ELSE p.via = "raw")

C10_Witness ==
  /\ state = DHS_RENEW /\ Called("dhcp_renew") /\ xid # 0
  /\ lease.server = 0 /\ Len(sent) = 1
  /\ sent[1].via = "raw" /\ sent[1].msg.type = "REQUEST"
  /\ sent[1].msg.ciaddr = addr /\ addr # 0 /\ ~sent[1].msg.bflag
  /\ timers["dhcp_rebind"] # NOTIMER /\ timers["dhcp_expire"] # NOTIMER

\* C11: when the rebind timer fires the state becomes REBIND, lease.server
\* becomes 0 and the send_renew timer is cancelled; the REQUEST that
\* dhcp_rebind sends, every REQUEST that send_rebind retransmits in REBIND and
\* so every message sent by a handler that leaves the interface in REBIND goes
\* out on the raw socket (link-layer broadcast), never by unicast.
C11_RebindBroadcasts ==
  /\ MayFire("dhcp_rebind") =>
       \A r \in {dhcp_rebind(Fired("dhcp_rebind"), In(0, FALSE))} :
         /\ r.state = DHS_REBIND
         /\ r.lease.server = 0
         /\ r.timers["send_renew"] = NOTIMER
         /\ Len(r.sent) = 1
         /\ r.sent[1].msg.type = "REQUEST"
         /\ r.sent[1].via = "raw"
         /\ r.timers["send_rebind"] # NOTIMER
  /\ (MayFire("send_rebind") /\ state = DHS_REBIND) =>
       \A r \in {send_rebind(Fired("send_rebind"), In(0, FALSE))} :
         /\ r.state = DHS_REBIND
         /\ Len(r.sent) = 1
         /\ r.sent[1].msg.type = "REQUEST"
         /\ r.sent[1].via = "raw"
  /\ (running /\ state = DHS_REBIND) =>
       /\ lease.server = 0
       /\ \A i \in 1..Len(sent) : sent[i].via = "raw"

C11_Witness ==
  /\ state = DHS_REBIND /\ Called("dhcp_rebind") /\ lease.server = 0
  /\ new # NULL /\ new.sid # 0
  /\ timers["send_renew"] = NOTIMER /\ timers["send_rebind"] # NOTIMER
  /\ Len(sent) = 1 /\ sent[1].via = "raw" /\ sent[1].msg.type = "REQUEST"
  /\ sent[1].msg.ciaddr = addr /\ addr # 0

\* C12: when the lease of the interface expires (dhcp_expire runs while the
\* interface has its address, the carrier up), the lease is dropped with
\* reason EXPIRE, the lease file is unlinked, the timers set before are
\* cancelled and the interface is restarted: it is in DISCOVER and a DISCOVER
\* has been sent, whose retransmission is the only timer pending.
C12_ExpireRestarts ==
  (MayFire("dhcp_expire") /\ addr # 0) =>
    \A x \in Xids :
      \A r \in {dhcp_expire(Fired("dhcp_expire"), In(x, FALSE))} :
        /\ "dhcp_drop" \in Range(r.trace)
        /\ r.reason = "EXPIRE"
        /\ r.new = NULL /\ r.addr = 0
        /\ r.leasefile = NULL
        /\ Pending(r.timers) \subseteq {"send_discover"}
        /\ r.state = DHS_DISCOVER
        /\ \E i \in 1..Len(r.sent) : r.sent[i].msg.type = "DISCOVER"

\* the interface is trying the lease it read from the lease file: dhcp_reboot
\* has sent the REQUEST for it (dhcp_request leaves the state at REQUEST) and
\* no OFFER or ACK has been taken since (after a NAK start_interface is
\* pending)
Rebooting ==
  /\ running /\ state \in {DHS_REBOOT, DHS_REQUEST}
  /\ lease.frominfo /\ offer # NULL

\* C13: while the interface tries a cached lease a timer is pending; the one
\* that ends the attempt is dhcp_expire or, with LASTLEASE, dhcp_timeout; when
\* dhcp_expire fires the interface falls back to DISCOVER and sends a DISCOVER, when
\* dhcp_timeout fires it binds the cached lease: the interface never stays in
\* the attempt with no timer pending.
C13_RebootFallsBack ==
  /\ Rebooting => Pending(timers) # {}
  /\ (Rebooting /\ MayFire("dhcp_expire")) =>
       \A x \in Xids :
         \A r \in {dhcp_expire(Fired("dhcp_expire"), In(x, FALSE))} :
           /\ r.state = DHS_DISCOVER
           /\ r.timers["send_discover"] # NOTIMER
           /\ \E i \in 1..Len(r.sent) : r.sent[i].msg.type = "DISCOVER"
  /\ (Rebooting /\ MayFire("dhcp_timeout")) =>
       \A x \in Xids :
         \A r \in {dhcp_timeout(Fired("dhcp_timeout"), In(x, FALSE))} :
           /\ r.new = offer
           /\ Pending(r.timers) # {}

\* C14: dhcp_release on an interface whose lease (state->new) carries the magic
\* cookie, a BOUND one among them, chooses a new xid, sends exactly one
\* RELEASE with it, leaves no timer pending, drops the lease with reason
\* RELEASE after the send and unlinks the lease file; on an interface with no
\* such lease it sends nothing.
C14_Release ==
  running =>
    \A x \in Xids :
      \A r \in {dhcp_release(Iface, In(x, FALSE))} :
        IF new # NULL /\ new.cookie = MAGIC_COOKIE
        THEN /\ r.xid = x /\ (state = DHS_BOUND => x # xid)
             /\ Len(r.sent) = 1
             /\ r.sent[1].msg.type = "RELEASE"
             /\ r.sent[1].msg.xid = x
             /\ Pending(r.timers) = {}
             /\ r.trace = <<"dhcp_release", "send_message", "dhcp_drop",
                            "ipv4_applyaddr", "unlink">>
             /\ r.reason = "RELEASE"
             /\ r.new = NULL /\ r.lease.addr = 0 /\ r.addr = 0
             /\ r.leasefile = NULL
        ELSE /\ r.sent = <<>>
             /\ r.xid = xid /\ r.timers = timers /\ r.reason = reason

C14_Witness ==
  /\ ~running /\ state = DHS_BOUND /\ Called("dhcp_release")
  /\ Called("dhcp_drop") /\ reason = "RELEASE"
  /\ Len(sent) = 1 /\ sent[1].msg.type = "RELEASE" /\ sent[1].msg.xid = xid
  /\ xid # 0 /\ sent[1].via = "udp" /\ sent[1].to = lease.server
  /\ new = NULL /\ addr = 0 /\ leasefile = NULL /\ Pending(timers) = {}

C16_BootpCookie ==
  (running /\ raw_fd) =>
    \A m \in Arrivals(xid) :
      (m.cookie = 0 /\ m.xid = xid /\ m.hw) =>
        \A r \in {HandlePacket(Iface, m, In(0, FALSE))} :
          /\ "dhcp_handle" \in Range(r.trace)
          /\ ifo.require54 => (r.offer = offer /\ r.new = new)

\* the messages of the transaction that dhcp_handlepacket hands to dhcp_handle
Handed == { m \in MsgsOf(xid) : m.cookie = MAGIC_COOKIE /\ m.hw }

\* dhcp_handle has logged one of its rejections
Rejected(r) ==
  Range(r.trace) \cap {"reject NAK", "reject DHCP", "reject invalid address"} # {}

\* the NAK accepted next schedules start_interface with delay 0
NextNakAtOnce ==
  \A n \in {Msg("NAK", xid, MAGIC_COOKIE, TRUE, 0, SERVER1, ABSENT, ABSENT, ABSENT)} :
    HandlePacket(Iface, n, In(0, FALSE)).timers["start_interface"] = 0

\* C17 as stated: every message other than a NAK that reaches dhcp_handle
\* leaves nakoff at 0.
C17_AnyNonNak ==
  (running /\ raw_fd) =>
    \A m \in Handed :
      m.type # "NAK" => HandlePacket(Iface, m, In(0, FALSE)).nakoff = 0

\* C17: where NAKs have raised nakoff, a message other than a NAK that
\* reaches dhcp_handle and passes its checks of the required options and of
\* the address sets nakoff to 0, and one that dhcp_handle rejects changes
\* nothing but the interval, so that nakoff stays as it was; wherever nakoff
\* is 0 the NAK accepted next schedules start_interface with delay 0.
C17_NakoffReset ==
  (running /\ raw_fd) =>
    IF nakoff = 0 THEN NextNakAtOnce
    ELSE \A m \in Handed :
           m.type # "NAK" =>
             \A r \in {HandlePacket(Iface, m, In(0, FALSE))} :
               IF Rejected(r)
               THEN [r EXCEPT !.trace = <<>>] = [Iface EXCEPT !.interval = 0]
               ELSE r.nakoff = 0

\* after a NAK had raised the backoff, an OFFER was taken and reset it
C17_Witness ==
  /\ running /\ state = DHS_REQUEST /\ reason = "NAK"
  /\ Called("dhcp_handle") /\ Called("dhcp_request") /\ ~Rejected([trace |-> trace])
  /\ offer # NULL /\ nakoff = 0 /\ naks = 0

\* C18: where option 54 is required, a NAK without Server-ID changes nothing
\* of the interface but the interval, which dhcp_handle resets before it
\* looks at the message: the lease, the address and the lease file stay, no
\* socket is closed, no timer is added or removed, nakoff is not advanced.
C18_NakDropped ==
  (running /\ raw_fd /\ ifo.require54) =>
    \A m \in NaksOf(xid) :
      m.sid = 0 =>
        \A r \in {HandlePacket(Iface, m, In(0, FALSE))} :
          /\ r.trace = <<"dhcp_handle", "reject NAK">>
          /\ r.new = new /\ r.lease = lease /\ r.leasefile = leasefile
          /\ r.addr = addr /\ r.reason = reason
          /\ r.raw_fd = raw_fd /\ r.udp_fd = udp_fd /\ r.arp_fd = arp_fd
          /\ r.timers = timers /\ r.nakoff = nakoff /\ r.state = state
          /\ [r EXCEPT !.trace = <<>>] = [Iface EXCEPT !.interval = 0]

\* a NAK without Server-ID was rejected while the lease was being renewed,
\* and the lease is still held
C18_Witness ==
  /\ running /\ ifo.require54 /\ trace = <<"dhcp_handle", "reject NAK">>
  /\ state = DHS_RENEW /\ raw_fd /\ udp_fd
  /\ new # NULL /\ leasefile # NULL /\ addr = lease.addr /\ addr # 0
  /\ timers["start_interface"] = NOTIMER /\ timers["dhcp_expire"] # NOTIMER

\* the operation P takes the new xid and leaves the timers it would leave had
\* none been pending
CancelsAll(P(_, _), s) ==
  \A x \in Xids :
    \A r \in {P(s, In(x, FALSE))} :
      /\ r.xid = x
      /\ r.timers = P([s EXCEPT !.timers = NoTimers], In(x, FALSE)).timers

\* dhcp_discover and dhcp_reboot take the new xid and cancel every timer
\* pending before them; a dhcp_release that sends leaves no timer at all
StartsAfresh ==
  running =>
    /\ CancelsAll(dhcp_discover, Iface)
    /\ CancelsAll(dhcp_reboot, Iface)
    /\ \A x \in Xids :
         \A r \in {dhcp_release(Iface, In(x, FALSE))} :
           r.sent # <<>> => (r.xid = x /\ Pending(r.timers) = {})

Quiet(r) == Pending(r.timers) = {} /\ ~r.raw_fd /\ ~r.udp_fd /\ ~r.arp_fd

\* C20: in whatever state of a listening interface dhcp_drop or dhcp_close
\* is called, as dhcp_handle calls them for a NAK, it leaves the
\* interface with no pending timer and with its raw, UDP and ARP sockets
\* closed.
C20_DropAndCloseQuiet ==
  (running /\ raw_fd) =>
    /\ \A why \in {"NAK", "EXPIRE", "RELEASE"} : Quiet(dhcp_drop(Iface, why))
    /\ Quiet(dhcp_close(Iface))

\* the retransmission callbacks and the handler each one is
SendBy(cb, s, in) ==
  CASE cb = "send_discover" -> send_discover(s, in)
    [] cb = "send_request" -> send_request(s, in)
    [] cb = "send_renew" -> send_renew(s, in)
    [] cb = "send_rebind" -> send_rebind(s, in)

\* the sockets are opened and the packet is not sent
SendFails == Input(0, 0, FALSE, 0, [IoOK EXCEPT !.send = "fail"])

Closed(r) == ~r.raw_fd /\ ~r.udp_fd /\ ~r.arp_fd

\* C21 as stated: outside test mode a send that fails, on the raw socket or on
\* the UDP socket, drops the lease with reason FAIL and closes the sockets.
C21_SendFailureDrops ==
  \A cb \in RetransmitTimers :
    (MayFire(cb) /\ ~ifo.test) =>
      \A r \in {SendBy(cb, Fired(cb), SendFails)} :
        r.reason = "FAIL" /\ r.new = NULL /\ Closed(r)

\* C21: outside test mode, when send_raw_packet fails the lease is dropped
\* with reason FAIL, the sockets are closed and every timer of the interface
\* is removed; when send_packet fails on the UDP socket the sockets are
\* closed, the lease, the address and the reason stay as they were and the
\* retransmission is scheduled as after a send that succeeded.
C21_SendFailure ==
  \A cb \in RetransmitTimers :
    (MayFire(cb) /\ ~ifo.test) =>
      \A r \in {SendBy(cb, Fired(cb), SendFails)} :
        /\ Len(r.sent) = 1 /\ Closed(r)
        /\ IF r.sent[1].via = "raw"
           THEN /\ r.reason = "FAIL" /\ r.new = NULL /\ r.lease.addr = 0
                /\ r.addr = 0 /\ Pending(r.timers) = {}
                /\ "dhcp_drop" \in Range(r.trace)
           ELSE /\ r.reason = reason /\ r.new = new /\ r.lease = lease
                /\ r.addr = addr /\ r.leasefile = leasefile
                /\ "dhcp_drop" \notin Range(r.trace)
                /\ r.timers =
                     SendBy(cb, Fired(cb), In(0, FALSE)).timers

\* the renewal could not be sent to the server: the sockets are closed, the
\* lease is held and send_renew is due again
C21_Witness ==
  /\ running /\ faults /\ state = DHS_RENEW
  /\ trace = <<"send_renew", "send_message", "dhcp_close">>
  /\ Len(sent) = 1 /\ sent[1].via = "udp"
  /\ ~raw_fd /\ ~udp_fd /\ new # NULL /\ addr = lease.addr /\ addr # 0
  /\ reason # "FAIL" /\ timers["send_renew"] # NOTIMER

\* C22 as stated: in test mode no handler applies or removes a lease
\* (ipv4_applyaddr is never called) and none writes or unlinks the lease
\* file; the run ends with reason TEST when the first OFFER is taken in
\* DISCOVER or when the lease would be bound.
C22_TestModeTouchesNothing ==
  (ifo.test /\ ~Called("dhcp_release")) =>
    /\ ~Called("ipv4_applyaddr") /\ ~Called("unlink")
    /\ ~Called("write_lease")
    /\ (Called("dhcp_bind") => ~running /\ reason = "TEST")
    /\ (~running => reason = "TEST")

\* the interfaces an ACK accepted in state INFORM leaves, outside test mode
InformBinds ==
  { HandlePacket(Iface, m, In(0, FALSE)) :
      m \in { m \in InformArrivals(xid) :
                /\ running /\ raw_fd /\ state = DHS_INFORM /\ ~ifo.test
                /\ m.type = "ACK"
                /\ "dhcp_bind" \in Range(HandlePacket(Iface, m, In(0, FALSE)).trace) } }

\* C23 as stated: an ACK accepted in state INFORM leads to BOUND with an
\* infinite lease time, no renew, rebind or expire timer, and reason INFORM.
C23_InformAckBinds ==
  \A r \in InformBinds :
    /\ r.state = DHS_BOUND /\ r.lease.leasetime = INFINITE
    /\ Pending(r.timers) \cap LeaseTimers = {}
    /\ r.reason = "INFORM"

\* the options of the area at offsets p..e-1 read as the format defines them:
\* a pad byte, or code, length and value, up to END
RECURSIVE Options(_, _, _)
Options(mem, p, e) ==
  IF p >= e \/ mem[p + 1] = DHO_END THEN <<>>
  ELSE IF mem[p + 1] = DHO_PAD THEN Options(mem, p + 1, e)
  ELSE IF p + 1 >= e THEN <<>>
  ELSE <<[code |-> mem[p + 1],
          val |-> BytesAt(mem, p + 2, Min(mem[p + 2], e - p - 2))]>>
       \o Options(mem, p + 2 + mem[p + 2], e)

Select(q, c) == SelectSeq(q, LAMBDA x : x.code = c)

\* the segments of option c in the order the areas are scanned: the options
\* area, then file when bit 1 of the overload option is set, then sname when
\* bit 2 is
Segments(mem, c) ==
  LET o == Options(mem, OptionsBase, OptionsBase + AreaSize)
      ov == Select(o, DHO_OPTIONSOVERLOADED)
      k == IF ov = <<>> \/ ov[1].val = <<>> THEN 0 ELSE ov[1].val[1]
  IN Select(o \o (IF k % 2 = 1
                   THEN Options(mem, FileBase, FileBase + AreaSize)
                   ELSE <<>>)
              \o (IF (k \div 2) % 2 = 1
                   THEN Options(mem, SnameBase, SnameBase + AreaSize)
                   ELSE <<>>), c)

Values(q) == Flatten([i \in 1..Len(q) |-> q[i].val])

\* C24 as stated: when the option occurs in several segments, in the options
\* area and through the overload option in file and then in sname,
\* get_option returns the values of all the segments, joined in the order
\* of the scan, and the length it hands to validate_length is the sum of
\* their lengths.
C24_Concatenation ==
  (gopt.pc = "done" /\ Len(Segments(gopt.mem, gopt.opt)) > 1) =>
    /\ gopt.buf = Values(Segments(gopt.mem, gopt.opt))
    /\ gopt.bl = Len(Values(Segments(gopt.mem, gopt.opt)))

\* C25 as stated: every call of get_option returns, whatever the message
\* holds, an overload option inside file or sname included.
C25_Terminates == <>(gopt.pc = "done")

\* what dhcp_start leaves when it runs with a lease file that is a seconds
\* old: the raw socket is closed, so dhcp_open opens it and the file is read
Restarts(a) ==
  { start_interface(Fired("start_interface"), Input(x, 0, FALSE, a, IoOK)) :
      x \in { x \in Xids :
                /\ MayFire("start_interface") /\ ~raw_fd
                /\ leasefile # NULL /\ leasefile.cookie = MAGIC_COOKIE
                /\ leasefile.lt # ABSENT
                /\ ~(offer # NULL /\ ifo.test) } }

\* the lease times as get_lease reads them from the file
Stored == get_lease(lease, leasefile)

\* C26 as stated: dhcp_start with a stored DHCP lease of finite lease time
\* whose file is a seconds old discards the lease and goes to DISCOVER when
\* the lease time is less than a; otherwise leasetime, renewaltime and
\* rebindtime are each the stored value less a, and none wraps around below
\* zero.
C26_StoredLeaseAged ==
  \A a \in 0..(LeaseSecs + 1) : \A r \in Restarts(a) :
    IF Stored.leasetime < a
    THEN r.state = DHS_DISCOVER /\ r.offer = NULL /\ r.lease.addr = 0
    ELSE /\ r.lease.leasetime = Stored.leasetime - a
         /\ r.lease.renewaltime = Stored.renewaltime - a
         /\ r.lease.rebindtime = Stored.rebindtime - a

\* the offset of the END of the options area, read as the format defines it
RECURSIVE EndOf(_, _)
EndOf(mem, p) ==
  IF p >= OptionsBase + AreaSize THEN 0 - 1
  ELSE IF mem[p + 1] = DHO_END THEN p
  ELSE IF mem[p + 1] = DHO_PAD THEN EndOf(mem, p + 1)
  ELSE EndOf(mem, p + 2 + mem[p + 2])

HasType(mem) ==
  Select(Options(mem, OptionsBase, OptionsBase + AreaSize), DHO_MESSAGETYPE) # <<>>

LeaseTimes == {0, 3600} \cup (DHCP_MIN_LEASE - 2)..(LeaseSecs + 7)
AckFor(L) ==
  Msg("ACK", xid, MAGIC_COOKIE, TRUE, ADDR1, SERVER1, L, ABSENT, ABSENT)

\* the times of the claim for the lease time L of option 51
TimesFor(l, L) ==
  /\ l.leasetime = IF L < 20 THEN 20 ELSE L
  /\ 2 * l.renewaltime <= l.leasetime /\ l.leasetime < 2 * l.renewaltime + 2
  /\ 8 * l.rebindtime <= 7 * l.leasetime
  /\ 7 * l.leasetime < 8 * l.rebindtime + 8
  /\ (L = 3600 => l.renewaltime = 1800 /\ l.rebindtime = 3150)

\* C28: after dhcp_bind of a DHCP ACK with the finite lease time L and
\* without options 58 and 59, leasetime is max(L, 20), renewaltime is
\* floor(leasetime / 2) and rebindtime is floor(leasetime * 7 / 8); an hour
\* gives 1800 and 3150.  It holds for every call of dhcp_bind the model
\* makes, and for an ACK with every lease time of LeaseTimes taken in
\* REQUEST.
C28_DefaultTimes ==
  /\ \A b \in Binds :
       (b.offer.cookie = MAGIC_COOKIE /\ b.offer.type = "ACK"
          /\ b.offer.lt # ABSENT /\ b.offer.rn = ABSENT /\ b.offer.rb = ABSENT)
       => TimesFor(b.to.lease, b.offer.lt)
  /\ (running /\ raw_fd /\ state = DHS_REQUEST /\ ~ifo.arp) =>
       \A L \in LeaseTimes :
         \A r \in {HandlePacket(Iface, AckFor(L), In(0, FALSE))} :
           "dhcp_bind" \in Range(r.trace) /\ TimesFor(r.lease, L)

\* the ACK of LeaseSecs seconds was bound: renew at half of it, rebind at
\* seven eighths
C28_Witness ==
  /\ state = DHS_BOUND /\ Called("dhcp_bind") /\ new # NULL
  /\ new.type = "ACK" /\ new.lt = LeaseSecs /\ new.rn = ABSENT
  /\ new.rb = ABSENT
  /\ lease.leasetime = LeaseSecs /\ lease.renewaltime = LeaseSecs \div 2
  /\ lease.rebindtime = (7 * LeaseSecs) \div 8
  /\ timers["dhcp_renew"] = lease.renewaltime
  /\ timers["dhcp_rebind"] = lease.rebindtime

\* the lease record the claim compares
LeaseOf(r) ==
  <<r.lease.addr, r.lease.net, r.lease.server, r.lease.leasetime,
    r.lease.renewaltime, r.lease.rebindtime>>

\* C29: dhcp_bind called again with the offer it has just bound leaves the
\* state (BOUND), the lease record (address, mask, server, lease, renewal and
\* rebind times) and the timers as the first call left them; for every call
\* of dhcp_bind the model makes that does not end the run (test mode).
C29_BindIdempotent ==
  \A b \in Binds :
    b.to.running =>
      \A again \in {dhcp_bind([b.to EXCEPT !.offer = b.offer])} :
        /\ b.to.state = DHS_BOUND /\ again.state = DHS_BOUND
        /\ LeaseOf(again) = LeaseOf(b.to)
        /\ again.timers = b.to.timers
        /\ again.new = b.to.new /\ again.addr = b.to.addr

\* the renewal was answered with the ACK bound before: the message is bound
\* a second time, state->old and state->new are the same message and the
\* lease timers are those of a first bind
C29_Witness ==
  /\ state = DHS_BOUND /\ Called("dhcp_bind") /\ reason = "RENEW"
  /\ new # NULL /\ old = new /\ new.lt = LeaseSecs
  /\ lease.leasetime = LeaseSecs
  /\ timers = BindTimers(NoTimers, lease)

\* C30: in one wake of dhcp_handlepacket a packet refused by a check of the
\* loop (bad UDP, whitelist, blacklist, oversize, cookie, xid, chaddr) does
\* not end the loop: the packet after it is handed to dhcp_handle when it
\* is valid, and the wake leaves the interface as the valid packet alone
\* would have.
C30_DrainsPastRefused ==
  (running /\ raw_fd) =>
    \A b \in BadPackets(xid), g \in GoodPackets(xid) :
      \A r \in {dhcp_handlepacket(Iface, <<b, g>>, In(0, FALSE))} :
        /\ Len(r.trace) >= 2
        /\ r.trace[1] = "continue" /\ r.trace[2] = "dhcp_handle"
        /\ [r EXCEPT !.trace = Tail(@)]
             = dhcp_handlepacket(Iface, <<g>>, In(0, FALSE))

\* a wake in REQUEST: the first packet was refused, the ACK after it was
\* bound
C30_Witness ==
  /\ Len(trace) > 2 /\ trace[1] = "continue" /\ trace[2] = "dhcp_handle"
  /\ Called("dhcp_bind") /\ state = DHS_BOUND /\ new # NULL
  /\ new.type = "ACK" /\ reason = "BOUND"

\* C31 (as the spec states it): route_netmask maps 10.1.2.3, 172.16.0.1,
\* 192.168.1.1 and 192.168.1.128 to 255.0.0.0, 255.255.0.0, 255.255.255.0
\* and 255.255.255.128.
C31_ClassMasks ==
  rn.pc = "done" =>
    /\ rn.dest = <<10, 1, 2, 3>> => rn.net = <<255, 0, 0, 0>>
    /\ rn.dest = <<172, 16, 0, 1>> => rn.net = <<255, 255, 0, 0>>
    /\ rn.dest = <<192, 168, 1, 1>> => rn.net = <<255, 255, 255, 0>>
    /\ rn.dest = <<192, 168, 1, 128>> => rn.net = <<255, 255, 255, 128>>

\* C31 (amended): route_netmask maps 10.1.2.3, 172.16.0.1 and 192.168.1.1,
\* whose last bit is set, to 255.255.255.255, and 192.168.1.128 to
\* 255.255.255.128; an address with no host bit set gets the mask of its
\* class, and the mask never leaves a bit of the destination outside it.
C31_HostMasks ==
  rn.pc = "done" =>
    /\ rn.dest = <<10, 1, 2, 3>> => rn.net = <<255, 255, 255, 255>>
    /\ rn.dest = <<172, 16, 0, 1>> => rn.net = <<255, 255, 255, 255>>
    /\ rn.dest = <<192, 168, 1, 1>> => rn.net = <<255, 255, 255, 255>>
    /\ rn.dest = <<192, 168, 1, 128>> => rn.net = <<255, 255, 255, 128>>
    /\ rn.dest = <<10, 0, 0, 0>> => rn.net = <<255, 0, 0, 0>>
    /\ rn.dest = <<172, 16, 0, 0>> => rn.net = <<255, 255, 0, 0>>
    /\ rn.dest = <<192, 168, 1, 0>> => rn.net = <<255, 255, 255, 0>>
    /\ ~NonZero(BitAnd(ntohl(rn.dest), BitNot(ntohl(rn.net))))

C31_Witness ==
  /\ rn.pc = "done" /\ rn.dest = <<192, 168, 1, 128>>
  /\ rn.net = <<255, 255, 255, 128>>

\* C32: at every moment at most one of the retransmission timers
\* (send_discover, send_request, send_renew, send_rebind, send_inform) is
\* pending for the interface.
C32_OneRetransmitTimer ==
  Cardinality({ cb \in {"send_discover", "send_request", "send_renew",
                        "send_rebind", "send_inform"} :
                timers[cb] # NOTIMER }) <= 1

\* C33: an ACK leads to PROBE (arp_probe) or to dhcp_bind only when the
\* interface is in REQUEST, REBOOT, RENEW, REBIND or INFORM; an ACK with
\* the xid of the interface that arrives in DISCOVER is not bound.
C33_AckOnlyAfterRequest ==
  (running /\ raw_fd) =>
    \A m \in Arrivals(xid), h \in HasAddrs : Accepted(m, "ACK") =>
      \A r \in {HandlePacket(Iface, m, In(0, h))} :
        ("dhcp_bind" \in Range(r.trace) \/ "arp_probe" \in Range(r.trace))
          => state \in {DHS_REQUEST, DHS_REBOOT, DHS_RENEW, DHS_REBIND,
                        DHS_INFORM}

\* C34: whenever the interface holds an applied lease with a finite lease
\* time (state->new is not NULL) and is not in PROBE, a dhcp_expire timer is
\* pending; this includes the reboot timeout (dhcp_timeout) that binds the
\* stored lease and then enters DISCOVER.
C34_ExpirePending ==
  (running /\ new # NULL /\ lease.leasetime # INFINITE
   /\ state # DHS_PROBE) => timers["dhcp_expire"] # NOTIMER

\* C35: every message passed to dhcp_handle consists of the bytes of the
\* packet just received and is zero beyond its length: no byte of an earlier
\* packet of the wake remains in it.
C35_NoStaleBytes ==
  hp.msg # NOBUF =>
    \A i \in (hp.len + 1)..MsgSize : hp.msg[i] = 0

\* C36: get_option never reads a byte outside the area it is scanning
\* (options, file or sname; the first byte of the area it switches to at END
\* counts as inside), never reads past the message or writes past the
\* scratch buffer, and the value it returns lies inside the message or the
\* scratch buffer, also for an item whose length byte is missing or runs
\* past the end of the area.
C36_ReadsInsideArea ==
  /\ gopt.pc # "undefined"
  /\ (gopt.pc = "loop" /\ gopt.p < gopt.e) =>
       \A a \in ScanReads(gopt) :
         \/ gopt.e - AreaSize <= a /\ a < gopt.e
         \/ a \in {FileBase, SnameBase}
  /\ (gopt.pc = "done" /\ gopt.bl > 0) =>
       IF gopt.bp # NOPTR THEN gopt.bl <= StructSize
       ELSE gopt.op + gopt.bl <= StructSize

\* C37: a message that dhcp_handle rejects (a NAK without the required
\* Server-ID, a reply without a required option, a reply with an invalid
\* address) or ignores (an OFFER outside DISCOVER) leaves the retransmission
\* interval as it was.
C37_RejectKeepsInterval ==
  (running /\ raw_fd) =>
    \A m \in Arrivals(xid) :
      (m.cookie = MAGIC_COOKIE /\ m.xid = xid /\ m.hw) =>
        \A r \in {HandlePacket(Iface, m, In(0, FALSE))} :
          (Rejected(r) \/ (m.type = "OFFER" /\ state # DHS_DISCOVER))
            => r.interval = interval

\* C38: if the raw socket cannot be opened in dhcp_start (dhcp_open returns
\* -1), dhcp_start returns without changing state, xid, offer or timers and
\* without trying to send.
C38_OpenFailureReturns ==
  (MayFire("start_interface") /\ ~raw_fd /\ ~ifo.static) =>
    \A x \in Xids, a \in 0..MaxAge :
      \A r \in {start_interface(Fired("start_interface"),
                  Input(x, 0, FALSE, a, [IoOK EXCEPT !.raw = "fail"]))} :
        /\ r.state = state /\ r.xid = xid /\ r.offer = offer
        /\ r.timers = Fired("start_interface").timers
        /\ "send_message" \notin Range(r.trace)

====
